---- MODULE Spec2Model ----
(***************************************************************************)
(* Model of the logprob-ranker scoring and ranking pipeline:               *)
(*   - the token-logprob attribute scanner of                              *)
(*     LogProbRanker.generate_and_evaluate_output (ranker.py),             *)
(*   - the score aggregation of the same method,                           *)
(*   - LogProbRanker.rank_outputs with asyncio.gather and                  *)
(*     sort_ranked_outputs (utils.py).                                     *)
(*                                                                         *)
(* Token texts and attribute names are sequences of one-character strings, *)
(* so that strip / startswith / endswith / slicing are computed as Python  *)
(* computes them.  Stream positions are 0-based as in the source; token i  *)
(* of the source is element i+1 of the TLA+ sequence.                      *)
(* Log-probabilities are integers (tenths); an aggregate score is the      *)
(* exact fraction [num, den] with den > 0.                                 *)
(***************************************************************************)
EXTENDS Integers, Sequences, FiniteSets, TLC

(***************************************************************************)
(* Bounds of the model.                                                    *)
(***************************************************************************)
MaxVariants == 3
MaxStreamLen == 4
MaxThreadCount == 2
MaxTemplateEntries == 2
MaxFreeTemplateLen == 3
MaxLogprobItems == 2
MaxSerializedScores == 2

\* The arank calls in flight on one adapter.
MaxArankCalls == 2

(***************************************************************************)
(* Python string primitives on sequences of characters.                    *)
(***************************************************************************)
Whitespace == {" ", "\n"}

RECURSIVE LStrip(_)
LStrip(s) ==
    IF s = <<>> THEN <<>>
    ELSE IF Head(s) \in Whitespace THEN LStrip(Tail(s)) ELSE s

RECURSIVE RStrip(_)
RStrip(s) ==
    IF s = <<>> THEN <<>>
    ELSE IF s[Len(s)] \in Whitespace THEN RStrip(SubSeq(s, 1, Len(s) - 1)) ELSE s

Strip(s) == RStrip(LStrip(s))

StartsWith(s, p) == Len(p) <= Len(s) /\ SubSeq(s, 1, Len(p)) = p

EndsWith(s, p) == Len(p) <= Len(s) /\ SubSeq(s, Len(s) - Len(p) + 1, Len(s)) = p

Contains(s, sub) ==
    \E i \in 1..(Len(s) - Len(sub) + 1) : SubSeq(s, i, i + Len(sub) - 1) = sub

LowerChar(c) ==
    CASE c = "T" -> "t"
      [] c = "R" -> "r"
      [] c = "U" -> "u"
      [] c = "E" -> "e"
      [] c = "F" -> "f"
      [] c = "A" -> "a"
      [] c = "L" -> "l"
      [] c = "S" -> "s"
      [] OTHER -> c

Lower(s) == [i \in 1..Len(s) |-> LowerChar(s[i])]

RECURSIVE RemoveQuotes(_)
RemoveQuotes(s) ==
    IF s = <<>> THEN <<>>
    ELSE IF Head(s) = "\"" THEN RemoveQuotes(Tail(s))
    ELSE <<Head(s)>> \o RemoveQuotes(Tail(s))

\* s[a:-1] of Python for a in {1, 2}: drop the first a characters and the last one.
SliceInner(s, a) == SubSeq(s, a + 1, Len(s) - 1)

(***************************************************************************)
(* Token texts used by the model.                                          *)
(***************************************************************************)
QUOTE == <<"\"">>
LBRACE == <<"{">>
RBRACE == <<"}">>
LBRACKET == <<"[">>
RBRACKET == <<"]">>
COLON == <<":">>
COMMA == <<",">>
SPACE == <<" ">>
TRUE_TEXT == <<"t", "r", "u", "e">>
FALSE_TEXT == <<"f", "a", "l", "s", "e">>

\* A token-logprob pair (token: str, logprob: float) of raw_token_logprobs.
Tok(text, lp) == [token |-> text, logprob |-> lp]

\* eval_tokens_with_logprobs[i] of the source (0-based).
TokenAt(tokens, i) == tokens[i + 1]

(***************************************************************************)
(* Phase A: find the attribute key by concatenating tokens.                *)
(***************************************************************************)
\* The delimiter test that stops accumulating the key.
IsKeyDelimiter(t) ==
    \/ Strip(t) \in {COLON, LBRACE, RBRACE, LBRACKET, RBRACKET, COMMA}
    \/ Contains(t, <<"\"", " ", ":">>)
    \/ Contains(t, <<":", "\"">>)
    \/ t = QUOTE

\* normalized_accumulated_key computed from accumulated_key_text.
NormalizeKey(acc) ==
    LET s == Strip(acc) IN
    IF StartsWith(s, <<"{", "\"">>) /\ EndsWith(s, QUOTE) THEN SliceInner(s, 2)
    ELSE IF StartsWith(s, QUOTE) /\ EndsWith(s, QUOTE) THEN SliceInner(s, 1)
    ELSE s

\* The mismatch / overshoot test that abandons a candidate start position.
KeyMismatch(norm, attr_name) ==
    Len(norm) > Len(attr_name) \/ ~StartsWith(attr_name, norm)

\* The inner loop over k_current_token_idx; the result is
\* colon_search_start_idx, or -1 when this start position does not form the key.
RECURSIVE AccumulateKey(_, _, _, _)
AccumulateKey(tokens, attr_name, k, acc) ==
    IF k >= Len(tokens) THEN -1
    ELSE LET t == TokenAt(tokens, k).token IN
         IF IsKeyDelimiter(t) THEN -1
         ELSE LET acc2 == acc \o t
                  norm == NormalizeKey(acc2)
              IN IF norm = attr_name THEN k + 1
                 ELSE IF KeyMismatch(norm, attr_name) THEN -1
                 ELSE AccumulateKey(tokens, attr_name, k + 1, acc2)

\* The outer loop over j_start_token_idx.
RECURSIVE FindKey(_, _, _)
FindKey(tokens, attr_name, j) ==
    IF j >= Len(tokens) THEN -1
    ELSE LET r == AccumulateKey(tokens, attr_name, j, <<>>) IN
         IF r # -1 THEN r ELSE FindKey(tokens, attr_name, j + 1)

(***************************************************************************)
(* Phase B: find the colon after the key.  The result is                   *)
(* value_search_start_idx, or -1.                                          *)
(***************************************************************************)
RECURSIVE FindColon(_, _, _)
FindColon(tokens, colon_search_start_idx, i) ==
    IF i >= Len(tokens) THEN -1
    ELSE LET t == TokenAt(tokens, i).token IN
         IF Contains(t, COLON) THEN i + 1
         ELSE IF (StartsWith(t, QUOTE) /\ i > colon_search_start_idx)
                 \/ t \in {RBRACE, RBRACKET}
              THEN -1
         ELSE FindColon(tokens, colon_search_start_idx, i + 1)

(***************************************************************************)
(* Phase C: find the 'true' / 'false' token after the colon.               *)
(***************************************************************************)
IsBooleanToken(t) == RemoveQuotes(Lower(Strip(t))) \in {TRUE_TEXT, FALSE_TEXT}

IsValueDelimiter(t, i, value_search_start_idx) ==
    t \in {COMMA, RBRACE, RBRACKET} \/ (StartsWith(t, QUOTE) /\ i > value_search_start_idx)

\* The loop of phase C; the result records whether the value was found, the
\* position of the value token, and the new current_token_stream_idx.
RECURSIVE FindValue(_, _, _)
FindValue(tokens, value_search_start_idx, i) ==
    IF i >= Len(tokens)
    THEN [found |-> FALSE, value_idx |-> -1, cursor |-> Len(tokens)]
    ELSE LET t == TokenAt(tokens, i).token IN
         IF IsBooleanToken(t)
         THEN [found |-> TRUE, value_idx |-> i, cursor |-> i + 1]
         ELSE IF IsValueDelimiter(t, i, value_search_start_idx)
         THEN [found |-> FALSE, value_idx |-> -1, cursor |-> i]
         ELSE FindValue(tokens, value_search_start_idx, i + 1)

(***************************************************************************)
(* One iteration of the loop "for attr_name in attributes_list".           *)
(***************************************************************************)
\* Python None where a record or a list is expected / where a string is expected.
None == [none |-> TRUE]
NoneStr == "None"
\* A value that may be None: None itself, or Some(v).
Some(v) == [value |-> v]
FOUND == "Logprob of token"
NOT_FOUND == "Value token not found"

\* Mutation: every key search restarts at the head of the stream.
KeySearchStartFromHead(current_idx) == 0

\* key_search_start_idx = current_token_stream_idx
KeySearchStart(current_idx) == current_idx

\* Mutation: an attribute whose key or colon is not found resets the cursor.
LocateValueResetting(tokens, attr_name, current_idx) ==
    LET colon_search_start_idx == FindKey(tokens, attr_name, KeySearchStart(current_idx))
        value_search_start_idx ==
            IF colon_search_start_idx # -1
            THEN FindColon(tokens, colon_search_start_idx, colon_search_start_idx)
            ELSE -1
    IN IF value_search_start_idx # -1 /\ value_search_start_idx < Len(tokens)
       THEN FindValue(tokens, value_search_start_idx, value_search_start_idx)
       ELSE [found |-> FALSE, value_idx |-> -1, cursor |-> 0]

\* Phases A, B and C for one attribute, from the cursor current_idx.
LocateValue(tokens, attr_name, current_idx) ==
    LET colon_search_start_idx == FindKey(tokens, attr_name, KeySearchStart(current_idx))
        value_search_start_idx ==
            IF colon_search_start_idx # -1
            THEN FindColon(tokens, colon_search_start_idx, colon_search_start_idx)
            ELSE -1
    IN IF value_search_start_idx # -1 /\ value_search_start_idx < Len(tokens)
       THEN FindValue(tokens, value_search_start_idx, value_search_start_idx)
       ELSE [found |-> FALSE, value_idx |-> -1, cursor |-> current_idx]

\* attr_actual_logprob of a located value token.
AcceptLogprob(token_lp) == token_lp

\* AttributeScore(name, score, explanation) appended for the attribute.
MakeAttributeScore(tokens, attr_name, loc) ==
    IF loc.found
    THEN [name |-> attr_name,
          score |-> AcceptLogprob(TokenAt(tokens, loc.value_idx).logprob),
          explanation |-> FOUND]
    ELSE [name |-> attr_name, score |-> 0, explanation |-> NOT_FOUND]

\* The state of the scan loop before the first attribute.
ScanStart ==
    [current_token_stream_idx |-> 0,
     attribute_scores_list |-> <<>>,
     total_attribute_token_logprob |-> 0,
     num_scores_found |-> 0,
     value_token_idx |-> <<>>]

\* Mutation: an attribute that is not located gets no AttributeScore.
ScanIterationSkipping(st, tokens, attr_name) ==
    LET loc == LocateValue(tokens, attr_name, st.current_token_stream_idx)
        as == MakeAttributeScore(tokens, attr_name, loc)
    IN [current_token_stream_idx |-> loc.cursor,
        attribute_scores_list |->
            IF loc.found THEN Append(st.attribute_scores_list, as)
            ELSE st.attribute_scores_list,
        total_attribute_token_logprob |->
            IF loc.found THEN st.total_attribute_token_logprob + as.score
            ELSE st.total_attribute_token_logprob,
        num_scores_found |->
            IF loc.found THEN st.num_scores_found + 1 ELSE st.num_scores_found,
        value_token_idx |-> Append(st.value_token_idx, loc.value_idx)]

\* The loop body: the state of the loop after attr_name was processed.
\* value_token_idx is history: the stream position of the value token taken
\* for each attribute, -1 when none was.
ScanIteration(st, tokens, attr_name) ==
    LET loc == LocateValue(tokens, attr_name, st.current_token_stream_idx)
        as == MakeAttributeScore(tokens, attr_name, loc)
    IN [current_token_stream_idx |-> loc.cursor,
        attribute_scores_list |-> Append(st.attribute_scores_list, as),
        total_attribute_token_logprob |->
            IF loc.found THEN st.total_attribute_token_logprob + as.score
            ELSE st.total_attribute_token_logprob,
        num_scores_found |->
            IF loc.found THEN st.num_scores_found + 1 ELSE st.num_scores_found,
        value_token_idx |-> Append(st.value_token_idx, loc.value_idx)]

\* The whole loop over attributes_list, from attribute number k (1-based).
RECURSIVE ScanLoop(_, _, _, _)
ScanLoop(st, tokens, attributes, k) ==
    IF k > Len(attributes) THEN st
    ELSE ScanLoop(ScanIteration(st, tokens, attributes[k]), tokens, attributes, k + 1)

\* Mutation: the total is not divided by the number of scores found.
FinalScoreUndivided(total, num_found) == [num |-> total, den |-> 1]

\* final_score: the fraction total / num_scores_found, 0.0 when nothing was found.
FinalScore(total, num_found) ==
    IF num_found > 0 THEN [num |-> total, den |-> num_found]
    ELSE [num |-> 0, den |-> 1]

\* The RankedOutput returned after the loop.
MakeRankedOutput(st, index) ==
    [output |-> "generated",
     logprob |-> FinalScore(st.total_attribute_token_logprob, st.num_scores_found),
     index |-> index,
     attribute_scores |-> st.attribute_scores_list,
     raw_evaluation |-> "evaluation"]

(***************************************************************************)
(* Inputs of the scanner: attribute names and evaluation token streams.    *)
(***************************************************************************)
AttrA == <<"a">>
AttrB == <<"b">>
AttrAB == <<"a", "b">>

Quoted(name) == QUOTE \o name \o QUOTE

\* A token that is not a boolean literal, with its log-probability.
Other(text) == Tok(text, -1)
\* Log-probabilities drawn for a boolean token; 0 is probability 1.0.
BoolLogprobs == {-5, 0}

\* All ways to cut the text s into contiguous non-empty fragments.
RECURSIVE Splits(_)
Splits(s) ==
    IF s = <<>> THEN {<<>>}
    ELSE UNION { { <<SubSeq(s, 1, k)>> \o rest : rest \in Splits(SubSeq(s, k + 1, Len(s))) }
                 : k \in 1..Len(s) }

\* The evaluation text {"<name>": <bool>} up to the boolean literal, with the
\* blank either before the boolean token or inside it.
ObjectPrefix(name) == LBRACE \o Quoted(name) \o COLON

BooleanTexts == {TRUE_TEXT, FALSE_TEXT}

\* A tokenized object: the fragments of the prefix, the boolean token, "}".
TokenizedObject(frags, bool_text, lp) ==
    [i \in 1..Len(frags) |-> Other(frags[i])] \o <<Tok(bool_text, lp), Other(RBRACE)>>

\* Token streams of {"ab": true} and {"ab": false}, cut anywhere before the
\* boolean literal, which is a token of its own: either the blank is cut
\* with the prefix, or it leads the boolean token.
TokenizedObjects ==
    { TokenizedObject(frags, t, lp) :
        frags \in Splits(ObjectPrefix(AttrAB) \o SPACE), t \in BooleanTexts, lp \in BoolLogprobs }
    \cup
    { TokenizedObject(frags, SPACE \o t, lp) :
        frags \in Splits(ObjectPrefix(AttrAB)), t \in BooleanTexts, lp \in BoolLogprobs }

\* The alphabet of the exhaustively enumerated short streams.
FreeTokens ==
    { Other(Quoted(AttrA)), Other(Quoted(AttrB)),
      Other(COLON), Other(COMMA), Other(RBRACE),
      Tok(SPACE \o TRUE_TEXT, -5), Tok(FALSE_TEXT, -8), Tok(TRUE_TEXT, 0) }

FreeStreams == UNION { [1..n -> FreeTokens] : n \in 0..MaxStreamLen }

\* Streams of two key / colon / value entries.
EntryKeys == { Other(Quoted(AttrA)), Other(Quoted(AttrB)) }
EntryValues ==
    { Tok(SPACE \o TRUE_TEXT, -5), Tok(SPACE \o TRUE_TEXT, -8), Tok(TRUE_TEXT, 0),
      Other(COMMA) }
EntrySeparators == { <<Other(COMMA)>>, <<>> }

EntryStreams ==
    { <<k1, Other(COLON), v1>> \o sep
        \o <<k2, Other(COLON), v2, Other(RBRACE)>> :
      k1 \in EntryKeys, v1 \in EntryValues, sep \in EntrySeparators,
      k2 \in EntryKeys, v2 \in EntryValues }

\* The (attributes_list, eval_tokens_with_logprobs) pairs the scanner is run on.
ScanInputs ==
    { <<(<<AttrAB>>), toks>> : toks \in TokenizedObjects }
    \cup { <<(<<AttrA, AttrB>>), toks>> : toks \in FreeStreams \cup EntryStreams }

(***************************************************************************)
(* sort_ranked_outputs: sorted(outputs, key=logprob, reverse=True).        *)
(***************************************************************************)
\* Comparison of two aggregate scores (fractions with positive denominator).
ScoreLess(x, y) == x.num * y.den < y.num * x.den
ScoreEqual(x, y) == x.num * y.den = y.num * x.den

\* Mutation: reverse=True is dropped, the sort is ascending.
PlacedAfterAscending(y, x) == ~ScoreLess(x.logprob, y.logprob)

\* Where the sort places x among the already ordered outputs: after every
\* output whose key is not smaller (the sort is stable, also with reverse=True).
PlacedAfter(y, x) == ~ScoreLess(y.logprob, x.logprob)

RECURSIVE InsertRanked(_, _)
InsertRanked(sorted, x) ==
    IF sorted = <<>> THEN <<x>>
    ELSE IF PlacedAfter(Head(sorted), x)
         THEN <<Head(sorted)>> \o InsertRanked(Tail(sorted), x)
         ELSE <<x>> \o sorted

RECURSIVE SortFrom(_, _, _)
SortFrom(sorted, outputs, k) ==
    IF k > Len(outputs) THEN sorted
    ELSE SortFrom(InsertRanked(sorted, outputs[k]), outputs, k + 1)

sort_ranked_outputs(outputs) == SortFrom(<<>>, outputs, 1)

(***************************************************************************)
(* Responses of the completion transport (_create_chat_completion).        *)
(***************************************************************************)
\* One "key": value, entry of an evaluation response as tokens.
Entry(name, value_tok) ==
    <<Other(Quoted(name)), Other(COLON), value_tok,
      Other(COMMA)>>

\* Token streams an evaluation response may carry.
SampleStreams ==
    { Entry(AttrA, Tok(SPACE \o TRUE_TEXT, -5)) \o Entry(AttrB, Tok(SPACE \o TRUE_TEXT, -5)),
      Entry(AttrA, Tok(SPACE \o TRUE_TEXT, -5)) \o Entry(AttrB, Other(COMMA)),
      Entry(AttrA, Tok(SPACE \o TRUE_TEXT, -8)) \o Entry(AttrB, Tok(SPACE \o FALSE_TEXT, -5)),
      <<>> }

\* The response dictionaries of the evaluation call.
EvaluationResponses ==
    { [content |-> "evaluation", raw_token_logprobs |-> Some(toks)] : toks \in SampleStreams }
    \cup { [content |-> "evaluation", raw_token_logprobs |-> None],
           [content |-> NoneStr, raw_token_logprobs |-> None] }

\* The response dictionaries of the generation call.
GenerationResponses == { [content |-> "generated"], [content |-> NoneStr] }

\* The attributes of config.template in the ranking pipeline.
TemplateAttributes == <<AttrA, AttrB>>

(***************************************************************************)
(* Errors.                                                                 *)
(***************************************************************************)
LLM_FAILED == "LLM generation failed for variant"
PARSE_FAILED == "Evaluation parsing failed for variant"
ALL_FAILED == "All generation and evaluation tasks failed."

RuntimeError(message, index) == [type |-> "RuntimeError", message |-> message, index |-> index]

IsRankedOutput(r) == "logprob" \in DOMAIN r
IsError(r) == "message" \in DOMAIN r

(***************************************************************************)
(* extract_template_attributes (utils.py).                                 *)
(*                                                                         *)
(* A template text is a sequence of one-character strings in which the     *)
(* placeholder word LOGPROB_TRUE is one element: no template of the model  *)
(* holds a part of that word.                                              *)
(***************************************************************************)
LOGPROB_TRUE == "LOGPROB_TRUE"

\* The whitespace json.loads skips, and the whitespace \s of re matches.
JsonWhitespace == {" ", "\t", "\n", "\r"}
RegexWhitespace == {" ", "\t", "\n", "\r", "\f"}

RECURSIVE SkipJsonWhitespace(_, _)
SkipJsonWhitespace(t, i) ==
    IF i <= Len(t) /\ t[i] \in JsonWhitespace THEN SkipJsonWhitespace(t, i + 1) ELSE i

\* Parsed JSON values: a string or an object (a dict keeps its keys in the
\* order of their first insertion).
JsonStr(chars) == [kind |-> "str", chars |-> chars]
JsonDict(items) == [kind |-> "dict", items |-> items]
JsonFail == [ok |-> FALSE, value |-> None, next |-> 0]
JsonOk(value, next) == [ok |-> TRUE, value |-> value, next |-> next]

\* dict[key] = value.
DictSet(items, key, value) ==
    IF \E k \in 1..Len(items) : items[k].key = key
    THEN [k \in 1..Len(items) |->
            IF items[k].key = key THEN [key |-> key, value |-> value] ELSE items[k]]
    ELSE Append(items, [key |-> key, value |-> value])

\* The position of the first quote at or after i, Len(t) + 1 if there is none.
RECURSIVE NextQuote(_, _)
NextQuote(t, i) ==
    IF i > Len(t) \/ t[i] = QUOTE[1] THEN i ELSE NextQuote(t, i + 1)

\* A JSON string whose opening quote is at position i.
ParseString(t, i) ==
    LET j == NextQuote(t, i + 1) IN
    IF j > Len(t) THEN JsonFail ELSE JsonOk(JsonStr(SubSeq(t, i + 1, j - 1)), j + 1)

\* json.JSONDecoder on the values a template of the model can hold: strings
\* and objects.  Any other text is a JSONDecodeError.
RECURSIVE ParseValue(_, _), ParseMembers(_, _, _)
ParseValue(t, i) ==
    IF i > Len(t) THEN JsonFail
    ELSE IF t[i] = QUOTE[1] THEN ParseString(t, i)
    ELSE IF t[i] = LBRACE[1]
         THEN LET j == SkipJsonWhitespace(t, i + 1) IN
              IF j <= Len(t) /\ t[j] = RBRACE[1] THEN JsonOk(JsonDict(<<>>), j + 1)
              ELSE ParseMembers(t, j, <<>>)
    ELSE JsonFail

\* The members of an object from the key at position i on.
ParseMembers(t, i, items) ==
    IF i > Len(t) \/ t[i] # QUOTE[1] THEN JsonFail
    ELSE LET key == ParseString(t, i) IN
    IF ~key.ok THEN JsonFail
    ELSE LET colon == SkipJsonWhitespace(t, key.next) IN
    IF colon > Len(t) \/ t[colon] # COLON[1] THEN JsonFail
    ELSE LET val == ParseValue(t, SkipJsonWhitespace(t, colon + 1)) IN
    IF ~val.ok THEN JsonFail
    ELSE LET items2 == DictSet(items, key.value.chars, val.value)
             after == SkipJsonWhitespace(t, val.next) IN
    IF after > Len(t) THEN JsonFail
    ELSE IF t[after] = RBRACE[1] THEN JsonOk(JsonDict(items2), after + 1)
    ELSE IF t[after] = COMMA[1]
         THEN ParseMembers(t, SkipJsonWhitespace(t, after + 1), items2)
    ELSE JsonFail

\* json.loads(t): one value with nothing but whitespace around it.
json_loads(t) ==
    LET val == ParseValue(t, SkipJsonWhitespace(t, 1)) IN
    IF ~val.ok THEN JsonFail
    ELSE IF SkipJsonWhitespace(t, val.next) # Len(t) + 1 THEN JsonFail
    ELSE val

\* template.replace('LOGPROB_TRUE', '"LOGPROB_TRUE"').
RECURSIVE ReplacePlaceholder(_)
ReplacePlaceholder(t) ==
    IF t = <<>> THEN <<>>
    ELSE IF Head(t) = LOGPROB_TRUE
         THEN QUOTE \o <<LOGPROB_TRUE>> \o QUOTE \o ReplacePlaceholder(Tail(t))
         ELSE <<Head(t)>> \o ReplacePlaceholder(Tail(t))

\* The two parsing attempts: template_json, JsonFail when both fail.
ParseTemplateJson(template) ==
    LET first == json_loads(template) IN
    IF first.ok THEN first ELSE json_loads(ReplacePlaceholder(template))

\* value.strip('"').
RECURSIVE LStripQuotes(_)
LStripQuotes(s) ==
    IF s = <<>> THEN <<>>
    ELSE IF Head(s) = QUOTE[1] THEN LStripQuotes(Tail(s)) ELSE s

RECURSIVE RStripQuotes(_)
RStripQuotes(s) ==
    IF s = <<>> THEN <<>>
    ELSE IF s[Len(s)] = QUOTE[1] THEN RStripQuotes(SubSeq(s, 1, Len(s) - 1)) ELSE s

StripQuotes(s) == RStripQuotes(LStripQuotes(s))

IsPlaceholderValue(value) ==
    value.kind = "str" /\ StripQuotes(value.chars) = <<LOGPROB_TRUE>>

\* The keys of the dict whose value is the placeholder string, in dict order.
RECURSIVE PlaceholderKeys(_)
PlaceholderKeys(items) ==
    IF items = <<>> THEN <<>>
    ELSE IF IsPlaceholderValue(Head(items).value)
         THEN <<Head(items).key>> \o PlaceholderKeys(Tail(items))
         ELSE PlaceholderKeys(Tail(items))

\* attributes after the JSON attempts.
JsonAttributes(template) ==
    LET template_json == ParseTemplateJson(template) IN
    IF template_json.ok /\ template_json.value.kind = "dict"
    THEN PlaceholderKeys(template_json.value.items)
    ELSE <<>>

\* The end of [^" ]+ started at i: the first quote or blank, Len(t) + 1 if none.
RECURSIVE KeyEnd(_, _)
KeyEnd(t, i) ==
    IF i > Len(t) \/ t[i] = QUOTE[1] \/ t[i] = SPACE[1] THEN i ELSE KeyEnd(t, i + 1)

RECURSIVE SkipRegexWhitespace(_, _)
SkipRegexWhitespace(t, i) ==
    IF i <= Len(t) /\ t[i] \in RegexWhitespace THEN SkipRegexWhitespace(t, i + 1) ELSE i

NoMatch == [found |-> FALSE, key |-> <<>>, end |-> 0]

\* A match of "([^" ]+)":\s*LOGPROB_TRUE that starts at position p.
RegexMatchAt(t, p) ==
    IF p > Len(t) \/ t[p] # QUOTE[1] THEN NoMatch
    ELSE LET q == KeyEnd(t, p + 1) IN
    IF q = p + 1 \/ q > Len(t) \/ t[q] # QUOTE[1] THEN NoMatch
    ELSE LET c == q + 1 IN
    IF c > Len(t) \/ t[c] # COLON[1] THEN NoMatch
    ELSE LET v == SkipRegexWhitespace(t, c + 1) IN
    IF v <= Len(t) /\ t[v] = LOGPROB_TRUE
    THEN [found |-> TRUE, key |-> SubSeq(t, p + 1, q - 1), end |-> v + 1]
    ELSE NoMatch

\* re.findall(pattern, template): the keys of the non-overlapping matches
\* from left to right.
RECURSIVE FindAll(_, _)
FindAll(t, p) ==
    IF p > Len(t) THEN <<>>
    ELSE LET m == RegexMatchAt(t, p) IN
         IF m.found THEN <<m.key>> \o FindAll(t, m.end) ELSE FindAll(t, p + 1)

RegexAttributes(template) == FindAll(template, 1)

ONLY_TOKEN == "Template contains only LOGPROB_TRUE token, cannot extract attributes."
NO_ATTRIBUTES == "No LOGPROB_TRUE attributes found in template via JSON or regex"

\* Mutation: the result of the regex fallback is returned without the check
\* that it found anything.
ExtractOutcomeUnchecked(template) ==
    LET json_attributes == JsonAttributes(template) IN
    [state |-> "returned",
     attributes |-> IF json_attributes # <<>> THEN json_attributes
                    ELSE RegexAttributes(template),
     error |-> NoneStr]

\* extract_template_attributes(template): the list returned or the
\* ValueError raised.
ExtractOutcome(template) ==
    LET json_attributes == JsonAttributes(template) IN
    IF json_attributes # <<>>
    THEN [state |-> "returned", attributes |-> json_attributes, error |-> NoneStr]
    ELSE LET regex_attributes == RegexAttributes(template) IN
         IF regex_attributes # <<>>
         THEN [state |-> "returned", attributes |-> regex_attributes, error |-> NoneStr]
         ELSE [state |-> "raised", attributes |-> <<>>,
               error |-> IF Strip(template) = <<LOGPROB_TRUE>> THEN ONLY_TOKEN
                         ELSE NO_ATTRIBUTES]

\* Templates: entries "key" : value between braces, and short free texts.
TemplateKeys == { Quoted(AttrA), Quoted(AttrB), AttrA }
TemplateValues == { <<LOGPROB_TRUE>>, Quoted(AttrB), Quoted(<<LOGPROB_TRUE>>) }
TemplateBlanks == { <<>>, SPACE }

TemplateEntries ==
    { [key |-> k, before_colon |-> w1, after_colon |-> w2, value |-> v] :
        k \in TemplateKeys, w1 \in TemplateBlanks, w2 \in TemplateBlanks,
        v \in TemplateValues }

EntryText(e) == e.key \o e.before_colon \o COLON \o e.after_colon \o e.value

RECURSIVE JoinEntries(_)
JoinEntries(entries) ==
    IF entries = <<>> THEN <<>>
    ELSE IF Len(entries) = 1 THEN EntryText(entries[1])
    ELSE EntryText(Head(entries)) \o COMMA \o SPACE \o JoinEntries(Tail(entries))

\* The text of a template of the given entries; closed: with its closing brace.
TemplateText(entries, closed) ==
    LBRACE \o JoinEntries(entries) \o (IF closed THEN RBRACE ELSE <<>>)

TemplateChars ==
    { QUOTE[1], LBRACE[1], RBRACE[1], COLON[1], COMMA[1], SPACE[1],
      AttrA[1], LOGPROB_TRUE }

FreeTemplates ==
    UNION { [1..n -> TemplateChars] : n \in 0..MaxFreeTemplateLen }

EntryLists == UNION { [1..n -> TemplateEntries] : n \in 0..MaxTemplateEntries }

(***************************************************************************)
(* LiteLLMAdapter._execute_litellm_completion and                          *)
(* _extract_raw_token_logprobs (ranker.py).                                *)
(*                                                                         *)
(* A Python value whose type the code tests is a record named after its    *)
(* type; an attribute an object does not have is Missing.                  *)
(***************************************************************************)
Missing == [missing |-> TRUE]
Unset == [unset |-> TRUE]
PyBool(b) == [bool |-> b]
PyInt(n) == [int |-> n]
PyFloat(x) == [float |-> x]
PyStr(s) == [str |-> s]
PyList(xs) == [list |-> xs]

\* hasattr(obj, name), given the value of the attribute.
HasAttr(attr) == attr # Missing

\* getattr(obj, name, None).
GetAttrOrNone(attr) == IF attr = Missing THEN None ELSE attr

IsStr(v) == "str" \in DOMAIN v
IsNumber(v) == "int" \in DOMAIN v \/ "float" \in DOMAIN v
IsList(v) == "list" \in DOMAIN v

LOGPROBS_NOT_AVAILABLE == "LogprobsNotAvailableError"
MALFORMED_LOGPROBS == "MalformedLogprobsError"
LLM_GENERATION_ERROR == "LLMGenerationError"
ATTRIBUTE_ERROR == "AttributeError"

Raised(error) == [ok |-> FALSE, value |-> <<>>, error |-> error]
Returned(value) == [ok |-> TRUE, value |-> value, error |-> NoneStr]

IsWellFormedItem(logprob_item) ==
    /\ HasAttr(logprob_item.token)
    /\ IsStr(GetAttrOrNone(logprob_item.token))
    /\ HasAttr(logprob_item.logprob)
    /\ IsNumber(GetAttrOrNone(logprob_item.logprob))

\* The logprob of a well-formed item as the integer the model computes with.
LogprobOf(logprob_item) ==
    IF "int" \in DOMAIN logprob_item.logprob THEN logprob_item.logprob.int
    ELSE logprob_item.logprob.float

\* The loop of the mutation below: a malformed item is skipped.
RECURSIVE CollectTokenLogprobsSkipping(_, _, _)
CollectTokenLogprobsSkipping(content, k, raw_token_logprobs) ==
    IF k > Len(content)
    THEN IF raw_token_logprobs = <<>> THEN Raised(LOGPROBS_NOT_AVAILABLE)
         ELSE Returned(raw_token_logprobs)
    ELSE IF IsWellFormedItem(content[k])
    THEN CollectTokenLogprobsSkipping(content, k + 1,
            Append(raw_token_logprobs, Tok(content[k].token.str, LogprobOf(content[k]))))
    ELSE CollectTokenLogprobsSkipping(content, k + 1, raw_token_logprobs)

\* The loop over choice.logprobs.content from item k on: the first malformed
\* item raises.
RECURSIVE CollectTokenLogprobs(_, _, _)
CollectTokenLogprobs(content, k, raw_token_logprobs) ==
    IF k > Len(content)
    THEN IF raw_token_logprobs = <<>> THEN Raised(LOGPROBS_NOT_AVAILABLE)
         ELSE Returned(raw_token_logprobs)
    ELSE IF IsWellFormedItem(content[k])
    THEN CollectTokenLogprobs(content, k + 1,
            Append(raw_token_logprobs, Tok(content[k].token.str, LogprobOf(content[k]))))
    ELSE Raised(MALFORMED_LOGPROBS)

\* Mutation: a malformed item is skipped and the rest of the list is kept.
ExtractRawTokenLogprobsSkipping(response) ==
    IF response = None \/ response.choices = <<>> THEN Raised(LOGPROBS_NOT_AVAILABLE)
    ELSE LET choice == response.choices[1] IN
    IF ~HasAttr(choice.logprobs) \/ choice.logprobs = None
    THEN Raised(LOGPROBS_NOT_AVAILABLE)
    ELSE IF ~HasAttr(choice.logprobs.content) \/ ~IsList(choice.logprobs.content)
    THEN Raised(LOGPROBS_NOT_AVAILABLE)
    ELSE IF choice.logprobs.content.list = <<>> THEN Raised(LOGPROBS_NOT_AVAILABLE)
    ELSE CollectTokenLogprobsSkipping(choice.logprobs.content.list, 1, <<>>)

\* Mutation: a response without usable logprobs gives the empty list.
ExtractRawTokenLogprobsOrEmpty(response) ==
    IF response = None \/ response.choices = <<>> THEN Returned(<<>>)
    ELSE LET choice == response.choices[1] IN
    IF ~HasAttr(choice.logprobs) \/ choice.logprobs = None THEN Returned(<<>>)
    ELSE IF ~HasAttr(choice.logprobs.content) \/ ~IsList(choice.logprobs.content)
    THEN Returned(<<>>)
    ELSE IF choice.logprobs.content.list = <<>> THEN Returned(<<>>)
    ELSE CollectTokenLogprobs(choice.logprobs.content.list, 1, <<>>)

\* _extract_raw_token_logprobs(response).
ExtractRawTokenLogprobs(response) ==
    IF response = None \/ response.choices = <<>> THEN Raised(LOGPROBS_NOT_AVAILABLE)
    ELSE LET choice == response.choices[1] IN
    IF ~HasAttr(choice.logprobs) \/ choice.logprobs = None
    THEN Raised(LOGPROBS_NOT_AVAILABLE)
    ELSE IF ~HasAttr(choice.logprobs.content) \/ ~IsList(choice.logprobs.content)
    THEN Raised(LOGPROBS_NOT_AVAILABLE)
    ELSE IF choice.logprobs.content.list = <<>> THEN Raised(LOGPROBS_NOT_AVAILABLE)
    ELSE CollectTokenLogprobs(choice.logprobs.content.list, 1, <<>>)

RECURSIVE SumLogprobs(_)
SumLogprobs(token_logprobs) ==
    IF token_logprobs = <<>> THEN 0
    ELSE Head(token_logprobs).logprob + SumLogprobs(Tail(token_logprobs))

\* _calculate_average_token_logprob as the fraction logprob_sum / count.
CalculateAverageTokenLogprob(token_logprobs) ==
    IF token_logprobs = <<>> THEN [num |-> 0, den |-> 1]
    ELSE [num |-> SumLogprobs(token_logprobs), den |-> Len(token_logprobs)]

\* should_request_logprobs and top_logprobs from the call's parameters and
\* the config; reading a field the config does not have is an AttributeError.
RequestParams(request_logprobs, request_top_logprobs, config) ==
    IF request_logprobs = None /\ ~HasAttr(config.logprobs) THEN Raised(ATTRIBUTE_ERROR)
    ELSE LET should_request_logprobs ==
                 IF request_logprobs # None THEN request_logprobs.bool
                 ELSE config.logprobs.bool
         IN
    IF ~should_request_logprobs
    THEN Returned([logprobs |-> FALSE, top_logprobs |-> None])
    ELSE IF request_top_logprobs # None
    THEN Returned([logprobs |-> TRUE, top_logprobs |-> request_top_logprobs])
    ELSE IF ~HasAttr(config.top_logprobs) THEN Raised(ATTRIBUTE_ERROR)
    ELSE IF config.top_logprobs # None
    THEN Returned([logprobs |-> TRUE, top_logprobs |-> config.top_logprobs])
    ELSE Returned([logprobs |-> TRUE, top_logprobs |-> PyInt(5)])

\* The response misses what the validation after the extraction asks for.
MissingCriticalInformation(response_obj) ==
    \/ response_obj = None
    \/ response_obj.choices = <<>>
    \/ response_obj.choices[1].message = None
    \/ response_obj.choices[1].message.content = None

\* What _execute_litellm_completion does with the response of
\* litellm.acompletion: the response_data returned or the error raised.
CompletionOutcome(response_obj, should_request_logprobs) ==
    LET extracted == IF should_request_logprobs
                     THEN ExtractRawTokenLogprobs(response_obj)
                     ELSE Returned(<<>>)
    IN
    IF ~extracted.ok THEN Raised(extracted.error)
    ELSE IF MissingCriticalInformation(response_obj) THEN Raised(LLM_GENERATION_ERROR)
    ELSE LET message == response_obj.choices[1].message
             response_data == [content |-> message.content.str,
                               role |-> message.role,
                               num_tokens |-> Len(message.content.str),
                               raw_token_logprobs |-> extracted.value,
                               average_token_logprob |->
                                   CalculateAverageTokenLogprob(extracted.value)]
         IN
    IF extracted.value # <<>> THEN Returned(response_data)
    ELSE IF should_request_logprobs THEN Raised(MALFORMED_LOGPROBS)
    ELSE Returned(response_data)

\* Responses of litellm.acompletion.
ItemTokens == { Missing, None, PyStr(TRUE_TEXT) }
ItemLogprobs == { Missing, None, PyFloat(-5), PyStr(<<"x">>) }
LogprobItems == { [token |-> t, logprob |-> l] : t \in ItemTokens, l \in ItemLogprobs }

LogprobsContents ==
    { Missing, None, PyStr(<<"x">>) }
    \cup { PyList(items) :
             items \in UNION { [1..n -> LogprobItems] : n \in 0..MaxLogprobItems } }

ChoiceLogprobs == { Missing, None } \cup { [content |-> c] : c \in LogprobsContents }

ChoiceMessages ==
    { None,
      [content |-> None, role |-> "assistant"],
      [content |-> PyStr(<<"o", "k">>), role |-> "assistant"] }

ProviderResponses ==
    { None, [choices |-> <<>>] }
    \cup { [choices |-> << [message |-> msg, logprobs |-> lp] >>] :
             msg \in ChoiceMessages, lp \in ChoiceLogprobs }

\* The parameters of a call and the configs of an adapter: the LogProbConfig
\* of models.py has no logprobs and no top_logprobs field; the tests use
\* configs that have them.
RequestLogprobs == { None, PyBool(TRUE), PyBool(FALSE) }
RequestTopLogprobs == { None, PyInt(5) }
AdapterConfigs ==
    { [logprobs |-> Missing, top_logprobs |-> Missing],
      [logprobs |-> PyBool(TRUE), top_logprobs |-> None],
      [logprobs |-> PyBool(FALSE), top_logprobs |-> None] }

(***************************************************************************)
(* Direct scoring: LiteLLMAdapter.score_text_attributes(_sync) of          *)
(* adapters/litellm_adapter.py and get_scores_for_attributes               *)
(* (demo_simple_attribute_scoring.py).                                     *)
(***************************************************************************)
NAME_ERROR == "NameError"

\* attributes_template_str of get_scores_for_attributes:
\* "{ " + ", ".join('"attr": LOGPROB_TRUE' ...) + " }".
RECURSIVE JoinTemplateParts(_)
JoinTemplateParts(attribute_names) ==
    IF attribute_names = <<>> THEN <<>>
    ELSE LET part == Quoted(Head(attribute_names)) \o COLON \o SPACE \o <<LOGPROB_TRUE>> IN
         IF Len(attribute_names) = 1 THEN part
         ELSE part \o COMMA \o SPACE \o JoinTemplateParts(Tail(attribute_names))

AttributesTemplateStr(attribute_names) ==
    LBRACE \o SPACE \o JoinTemplateParts(attribute_names) \o SPACE \o RBRACE

VALUE_ERROR == "ValueError"

\* The adapter's copy of the mismatch / overshoot test of phase A.
AdapterKeyMismatch(norm, attr_name) ==
    \/ Len(norm) > Len(attr_name) + 5
    \/ (Len(norm) > 0 /\ ~StartsWith(attr_name, StripQuotes(norm)))

\* The adapter's inner loop over k_current_token_idx.
RECURSIVE AdapterAccumulateKey(_, _, _, _)
AdapterAccumulateKey(tokens, attr_name, k, acc) ==
    IF k >= Len(tokens) THEN -1
    ELSE LET t == TokenAt(tokens, k).token IN
         IF IsKeyDelimiter(t) THEN -1
         ELSE LET acc2 == acc \o t
                  norm == NormalizeKey(acc2)
              IN IF norm = attr_name THEN k + 1
                 ELSE IF AdapterKeyMismatch(norm, attr_name) THEN -1
                 ELSE AdapterAccumulateKey(tokens, attr_name, k + 1, acc2)

\* The adapter's outer loop over j_start_token_idx.
RECURSIVE AdapterFindKey(_, _, _)
AdapterFindKey(tokens, attr_name, j) ==
    IF j >= Len(tokens) THEN -1
    ELSE LET r == AdapterAccumulateKey(tokens, attr_name, j, <<>>) IN
         IF r # -1 THEN r ELSE AdapterFindKey(tokens, attr_name, j + 1)

\* Phase C of the adapter, from the value_search_start_idx phase B gave.
AdapterPhaseC(tokens, value_search_start_idx, current_idx) ==
    IF value_search_start_idx # -1 /\ value_search_start_idx < Len(tokens)
    THEN FindValue(tokens, value_search_start_idx, value_search_start_idx)
    ELSE [found |-> FALSE, value_idx |-> -1, cursor |-> current_idx]

\* Phases B and C of the adapter, from the colon_search_start_idx phase A gave.
AdapterPhaseB(tokens, colon_search_start_idx, current_idx) ==
    AdapterPhaseC(tokens,
                  IF colon_search_start_idx # -1
                  THEN FindColon(tokens, colon_search_start_idx, colon_search_start_idx)
                  ELSE -1,
                  current_idx)

\* Phases A, B and C of the adapter for one attribute.
AdapterLocateValue(tokens, attr_name, current_idx) ==
    AdapterPhaseB(tokens, AdapterFindKey(tokens, attr_name, current_idx), current_idx)

\* The adapter's loop "for attr_name in attributes_list" from attribute
\* number k: a located token with logprob 0.0 raises, an attribute whose
\* value token is not located raises, otherwise the score is appended.
RECURSIVE ScoreAttributesLoop(_, _, _, _, _)
RECURSIVE ScoreLocatedAttribute(_, _, _, _, _)

\* The end of one iteration, loc being what phases A, B and C found.
ScoreLocatedAttribute(tokens, attributes, k, scores, loc) ==
    IF ~loc.found THEN Raised(VALUE_ERROR)
    ELSE IF TokenAt(tokens, loc.value_idx).logprob = 0 THEN Raised(VALUE_ERROR)
    ELSE ScoreAttributesLoop(tokens, attributes, k + 1, loc.cursor,
             Append(scores, [name |-> attributes[k],
                             score |-> TokenAt(tokens, loc.value_idx).logprob,
                             explanation |-> FOUND]))

ScoreAttributesLoop(tokens, attributes, k, current_idx, scores) ==
    IF k > Len(attributes) THEN Returned(scores)
    ELSE ScoreLocatedAttribute(tokens, attributes, k, scores,
             AdapterLocateValue(tokens, attributes[k], current_idx))

\* score_text_attributes from the evaluation response on: raw_token_logprobs
\* is None or Some(stream).
ScoreExtracted(eval_tokens, extracted) ==
    IF extracted.state = "raised" THEN Raised(extracted.error)
    ELSE ScoreAttributesLoop(eval_tokens, extracted.attributes, 1, 0, <<>>)

ScoreFromResponse(raw_token_logprobs, template_to_use) ==
    IF raw_token_logprobs = None THEN Raised(LOGPROBS_NOT_AVAILABLE)
    ELSE ScoreExtracted(raw_token_logprobs.value, ExtractOutcome(template_to_use))

\* The statement evaluation_formatted_prompt = format_evaluation_prompt(...,
\* template_to..._to_use): the adapter module neither defines nor imports
\* format_evaluation_prompt, and the argument name is not bound either, so
\* the statement raises NameError for every input.
FormatEvaluationPromptCall(text_to_evaluate) == Raised(NAME_ERROR)

\* score_text_attributes: the prompt is formatted, then the evaluation
\* response is scored.
ScoreTextAttributesOutcome(text_to_evaluate, template, raw_token_logprobs) ==
    IF ~FormatEvaluationPromptCall(text_to_evaluate).ok
    THEN FormatEvaluationPromptCall(text_to_evaluate)
    ELSE ScoreFromResponse(raw_token_logprobs, template)

\* The raw_token_logprobs of the evaluation response.
DirectResponses ==
    {None} \cup { Some(toks) : toks \in TokenizedObjects \cup EntryStreams }

\* Mutation: on an error the helper returns one defaulted score per attribute.
GetScoresOutcomeDefaulted(outcome, names) ==
    IF outcome.ok THEN outcome.value
    ELSE [k \in 1..Len(names) |->
            [name |-> names[k], score |-> 0, explanation |-> NOT_FOUND]]

\* get_scores_for_attributes around the call: the scores, or the empty list
\* when the call raised.
GetScoresOutcome(outcome, names) ==
    IF outcome.ok THEN outcome.value ELSE <<>>

DirectAttributeNames ==
    UNION { [1..n -> {AttrA, AttrB, AttrAB, AttrB \o AttrA}] : n \in 0..MaxTemplateEntries }

(***************************************************************************)
(* serialize_ranked_output and deserialize_ranked_output (utils.py).       *)
(* A dictionary is a function from its keys; an object is a record of its  *)
(* attributes.  attribute_scores is None or Some(list); raw_evaluation is  *)
(* NoneStr or a string.                                                    *)
(***************************************************************************)
EXTRA_ATTRIBUTES == <<"provider", "model", "generation_time">>

\* Truthiness of an Optional[List]: neither None nor the empty list.
IsTruthyList(v) == v # None /\ v.value # <<>>

\* Truthiness of an Optional[str]: neither None nor the empty string.
IsTruthyStr(v) == v # NoneStr /\ v # ""

\* The dictionary key of an item, present when cond holds.
DictItem(cond, key, value) == IF cond THEN key :> value ELSE <<>>

\* [{"name": a.name, "score": a.score} for a in ranked_output.attribute_scores]
SerializeScores(attribute_scores) ==
    [k \in 1..Len(attribute_scores) |->
        [name |-> attribute_scores[k].name, score |-> attribute_scores[k].score]]

\* The items added for the attributes of extended classes that are present.
RECURSIVE ExtraItems(_, _)
ExtraItems(r, k) ==
    IF k > Len(EXTRA_ATTRIBUTES) THEN <<>>
    ELSE DictItem(EXTRA_ATTRIBUTES[k] \in DOMAIN r.extra,
                  EXTRA_ATTRIBUTES[k], Some(r.extra[EXTRA_ATTRIBUTES[k]]))
         @@ ExtraItems(r, k + 1)

\* serialize_ranked_output(ranked_output): a dictionary whose values are
\* wrapped in Some.
serialize_ranked_output(r) ==
    [output |-> Some(r.output), logprob |-> Some(r.logprob), index |-> Some(r.index)]
    @@ DictItem(IsTruthyList(r.attribute_scores), "attribute_scores",
                IF r.attribute_scores = None THEN None
                ELSE Some(SerializeScores(r.attribute_scores.value)))
    @@ DictItem(IsTruthyStr(r.raw_evaluation), "raw_evaluation", Some(r.raw_evaluation))
    @@ ExtraItems(r, 1)

\* The loop of deserialize_ranked_output building AttributeScore objects:
\* name and score are set, nothing else.
DeserializeScores(items) ==
    [k \in 1..Len(items) |-> [name |-> items[k].name, score |-> items[k].score]]

\* deserialize_ranked_output(data) for a dictionary that has the keys
\* "output", "logprob" and "index".
deserialize_ranked_output(data) ==
    [output |-> data["output"].value,
     logprob |-> data["logprob"].value,
     index |-> data["index"].value,
     attribute_scores |->
        IF "attribute_scores" \in DOMAIN data
        THEN Some(DeserializeScores(data["attribute_scores"].value))
        ELSE None,
     raw_evaluation |->
        IF "raw_evaluation" \in DOMAIN data THEN data["raw_evaluation"].value
        ELSE NoneStr]

\* RankedOutput objects: with and without attribute scores and raw
\* evaluation, empty ones included, and objects of extended classes.
SerializedNames == {"quality", "clarity"}
SerializedScoreValues == {-5, 0}
SerializableScores ==
    { [name |-> n, score |-> v, explanation |-> e] :
        n \in SerializedNames, v \in SerializedScoreValues, e \in {"", FOUND} }
SerializableScoreLists ==
    UNION { [1..n -> SerializableScores] : n \in 0..MaxSerializedScores }
SerializableExtras ==
    { <<>>, "provider" :> "openai",
      ("provider" :> "openai") @@ ("model" :> "gpt") @@ ("generation_time" :> "1.5") }
SerializableOutputs ==
    { [output |-> o, logprob |-> lp, index |-> i, attribute_scores |-> as,
       raw_evaluation |-> raw, extra |-> x] :
        o \in {"", "text"}, lp \in {-5, 9}, i \in {0, 1},
        as \in {None} \cup { Some(l) : l \in SerializableScoreLists },
        raw \in {NoneStr, "", "raw"}, x \in SerializableExtras }

(***************************************************************************)
(* State.                                                                  *)
(***************************************************************************)
VARIABLES
    \* the scoring part of one generate_and_evaluate_output call
    attributes_list,                \* extract_template_attributes(config.template)
    eval_tokens_with_logprobs,      \* raw_token_logprobs of the evaluation response
    current_token_stream_idx,       \* the cursor into the token stream
    attribute_scores_list,          \* AttributeScore appended per attribute
    total_attribute_token_logprob,
    num_scores_found,
    value_token_idx,                \* history: position of each attribute's value token
    scan_pc,                        \* "idle", "loop", "returned"
    ranked_output,                  \* the RankedOutput returned, None before
    \* one rank_outputs call
    num_variants,                   \* config.num_variants
    thread_count,                   \* config.thread_count
    on_output_callback,             \* NoneStr or "installed"
    entry,                          \* "rank_outputs" or "rank_outputs_sync"
    unit_pc,                        \* per variant: "idle", "generating", "evaluating",
                                    \*              "succeeded", "failed"
    unit_result,                    \* per variant: None, its RankedOutput, or its error
    completion_order,               \* history: variants in the order they finished
    gather_exception,               \* the first exception raised by a task, None if none
    rank_state,                     \* "idle", "awaiting", "returned", "raised"
    rank_return,                    \* the list returned by rank_outputs, once rank_state
                                    \* is "returned"; <<>> until then
    rank_error,                     \* the error raised by rank_outputs
    callback_log,                   \* history: on_output_callback invocations
    \* one extract_template_attributes call
    template,                       \* the template text
    template_entries,               \* the entries the text was written from, None
                                    \* for a free text
    extract_state,                  \* "idle", "called", "returned", "raised"
    attributes,                     \* the list returned
    extract_error,                  \* the message of the ValueError raised
    \* one LiteLLMAdapter._execute_litellm_completion call
    request_logprobs,               \* the parameter: None or a bool
    request_top_logprobs,           \* the parameter: None or an int
    adapter_config,                 \* self.config: its logprobs and top_logprobs fields
    litellm_params,                 \* logprobs / top_logprobs sent to litellm.acompletion
    response_obj,                   \* what litellm.acompletion returned, Unset before
    completion_state,               \* "idle", "called", "awaiting", "returned", "raised"
    response_data,                  \* the dictionary returned, None if none
    completion_error,               \* the class of the exception raised
    \* one direct scoring call
    direct_entry,                   \* "get_scores_for_attributes" or
                                    \* "score_text_attributes_sync"
    attribute_names,                \* the attribute names the caller asks for
    direct_config,                  \* the config argument: NoneStr or "LogProbConfig"
    custom_attributes_template,     \* the template passed to score_text_attributes
    direct_response,                \* raw_token_logprobs of the evaluation response
    direct_state,                   \* "idle", "called", "scoring", "returned", "raised"
    direct_result,                  \* the list returned to the caller
    direct_error,                   \* the class of the exception score_text_attributes
                                    \* raised
    \* one serialization round trip
    serialize_input,                \* the RankedOutput given to serialize_ranked_output
    data,                           \* the dictionary, <<>> before
    deserialized,                   \* the object deserialize_ranked_output returned
    serialize_state,                \* "idle", "constructed", "serialized", "deserialized"
    \* one generate_and_evaluate_output call with its transport
    variant_index,                  \* the index argument
    ranker_config,                  \* self.config
    completion_calls,               \* the ChatCompletionParams given to
                                    \* _create_chat_completion, in order
    generation_transport,           \* what the generation call returned or raised
    evaluation_transport,           \* what the evaluation call returned or raised
    gen_eval_pc,                    \* "idle", "called", "generating", "evaluating",
                                    \* "returned", "raised"
    gen_eval_outcome,               \* the RankedOutput returned or the RuntimeError
    \* arank calls on one OpenRouterAdapter
    config_template,                \* self.config.template
    config_evaluation_prompt,       \* self.config.evaluation_prompt
    criteria,                       \* the criteria argument of each call
    original_template,              \* the local original_template of each call
    original_eval_prompt,           \* the local original_eval_prompt of each call
    observed_template,              \* the template the ranking run of each call read
    arank_pc                        \* of each call: "idle", "called", "ranking",
                                    \* "evaluating", "finished"

scan_vars ==
    <<attributes_list, eval_tokens_with_logprobs, current_token_stream_idx,
      attribute_scores_list, total_attribute_token_logprob, num_scores_found,
      value_token_idx, scan_pc, ranked_output>>

rank_vars ==
    <<num_variants, thread_count, on_output_callback, entry, unit_pc, unit_result,
      completion_order, gather_exception, rank_state, rank_return, rank_error,
      callback_log>>

extract_vars == <<template, template_entries, extract_state, attributes, extract_error>>

completion_vars ==
    <<request_logprobs, request_top_logprobs, adapter_config, litellm_params, response_obj,
      completion_state, response_data, completion_error>>

direct_vars ==
    <<direct_entry, attribute_names, direct_config, custom_attributes_template,
      direct_response, direct_state, direct_result, direct_error>>

serialize_vars == <<serialize_input, data, deserialized, serialize_state>>

gen_eval_vars ==
    <<variant_index, ranker_config, completion_calls, generation_transport,
      evaluation_transport, gen_eval_pc, gen_eval_outcome>>

arank_vars ==
    <<config_template, config_evaluation_prompt, criteria, original_template,
      original_eval_prompt, observed_template, arank_pc>>

vars ==
    <<scan_vars, rank_vars, extract_vars, completion_vars, direct_vars, serialize_vars,
      gen_eval_vars, arank_vars>>

ScanState ==
    [current_token_stream_idx |-> current_token_stream_idx,
     attribute_scores_list |-> attribute_scores_list,
     total_attribute_token_logprob |-> total_attribute_token_logprob,
     num_scores_found |-> num_scores_found,
     value_token_idx |-> value_token_idx]

\* The scoring loop is entered with the evaluation response in hand.
ScanInit ==
    /\ \E inp \in ScanInputs :
         /\ attributes_list = inp[1]
         /\ eval_tokens_with_logprobs = inp[2]
    /\ current_token_stream_idx = ScanStart.current_token_stream_idx
    /\ attribute_scores_list = ScanStart.attribute_scores_list
    /\ total_attribute_token_logprob = ScanStart.total_attribute_token_logprob
    /\ num_scores_found = ScanStart.num_scores_found
    /\ value_token_idx = ScanStart.value_token_idx
    /\ scan_pc = "loop"
    /\ ranked_output = None

\* No scoring loop in progress.
ScanIdle ==
    /\ attributes_list = <<>>
    /\ eval_tokens_with_logprobs = <<>>
    /\ current_token_stream_idx = 0
    /\ attribute_scores_list = <<>>
    /\ total_attribute_token_logprob = 0
    /\ num_scores_found = 0
    /\ value_token_idx = <<>>
    /\ scan_pc = "idle"
    /\ ranked_output = None

\* One iteration of "for attr_name in attributes_list".
ScanAttribute ==
    /\ scan_pc = "loop"
    /\ Len(attribute_scores_list) < Len(attributes_list)
    /\ LET attr_name == attributes_list[Len(attribute_scores_list) + 1]
           st == ScanIteration(ScanState, eval_tokens_with_logprobs, attr_name)
       IN /\ current_token_stream_idx' = st.current_token_stream_idx
          /\ attribute_scores_list' = st.attribute_scores_list
          /\ total_attribute_token_logprob' = st.total_attribute_token_logprob
          /\ num_scores_found' = st.num_scores_found
          /\ value_token_idx' = st.value_token_idx
    /\ UNCHANGED <<attributes_list, eval_tokens_with_logprobs, scan_pc, ranked_output>>

\* After the loop: final_score and the returned RankedOutput.
ScanReturn ==
    /\ scan_pc = "loop"
    /\ Len(attribute_scores_list) = Len(attributes_list)
    /\ ranked_output' = MakeRankedOutput(ScanState, 0)
    /\ scan_pc' = "returned"
    /\ UNCHANGED <<attributes_list, eval_tokens_with_logprobs, current_token_stream_idx,
                   attribute_scores_list, total_attribute_token_logprob,
                   num_scores_found, value_token_idx>>

(***************************************************************************)
(* generate_and_evaluate_output: one unit, between its two awaits.         *)
(***************************************************************************)
Variants == 0..(num_variants - 1)

\* check_positive: the values config.num_variants can hold.
ValidNumVariants == { n \in 0..MaxVariants : ~(n <= 0) }

\* check_positive: the values config.thread_count can hold.
ValidThreadCounts == { n \in 0..MaxThreadCount : ~(n <= 0) }

\* The event loop that runs the units; rank_outputs_sync closes its loop
\* once rank_outputs has returned or raised.
LoopRunning == ~(entry = "rank_outputs_sync" /\ rank_state \in {"returned", "raised"})

\* What the unit does with the generation response: the error it raises, or
\* None when it goes on to the evaluation call.
GenerationOutcome(resp, index) ==
    IF resp.content = NoneStr THEN RuntimeError(LLM_FAILED, index) ELSE None

\* What the unit does with the evaluation response: the error it raises or
\* the RankedOutput it returns.
EvaluationOutcome(resp, index) ==
    IF resp.content = NoneStr THEN RuntimeError(PARSE_FAILED, index)
    ELSE IF resp.raw_token_logprobs = None THEN RuntimeError(LLM_FAILED, index)
    ELSE MakeRankedOutput(
            ScanLoop(ScanStart, resp.raw_token_logprobs.value, TemplateAttributes, 1), index)

\* A unit finishes with result r (a RankedOutput or an error); gather keeps
\* the first exception.
FinishUnit(i, r) ==
    /\ unit_pc' = [unit_pc EXCEPT ![i] = IF IsError(r) THEN "failed" ELSE "succeeded"]
    /\ unit_result' = [unit_result EXCEPT ![i] = r]
    /\ completion_order' = Append(completion_order, i)
    /\ gather_exception' =
          IF IsError(r) /\ gather_exception = None THEN r ELSE gather_exception

\* rank_outputs is called: the tasks are created and each issues its
\* generation request.
CallRankOutputs ==
    /\ rank_state = "idle"
    /\ rank_state' = "awaiting"
    /\ unit_pc' = [i \in Variants |-> "generating"]
    /\ UNCHANGED <<num_variants, thread_count, on_output_callback, entry, unit_result,
                   completion_order, gather_exception, rank_return, rank_error,
                   callback_log>>
    /\ UNCHANGED scan_vars

\* The generation call of unit i returns a response.
GenerationReturns(i) ==
    /\ LoopRunning
    /\ unit_pc[i] = "generating"
    /\ \E resp \in GenerationResponses :
         LET err == GenerationOutcome(resp, i) IN
         IF err = None
         THEN /\ unit_pc' = [unit_pc EXCEPT ![i] = "evaluating"]
              /\ UNCHANGED <<unit_result, completion_order, gather_exception>>
         ELSE FinishUnit(i, err)
    /\ UNCHANGED <<num_variants, thread_count, on_output_callback, entry, rank_state,
                   rank_return, rank_error, callback_log>>
    /\ UNCHANGED scan_vars

\* The generation call of unit i raises LLMGenerationError.
GenerationFails(i) ==
    /\ LoopRunning
    /\ unit_pc[i] = "generating"
    /\ FinishUnit(i, RuntimeError(LLM_FAILED, i))
    /\ UNCHANGED <<num_variants, thread_count, on_output_callback, entry, rank_state,
                   rank_return, rank_error, callback_log>>
    /\ UNCHANGED scan_vars

\* The evaluation call of unit i returns a response; the unit scores it.
EvaluationReturns(i) ==
    /\ LoopRunning
    /\ unit_pc[i] = "evaluating"
    /\ \E resp \in EvaluationResponses : FinishUnit(i, EvaluationOutcome(resp, i))
    /\ UNCHANGED <<num_variants, thread_count, on_output_callback, entry, rank_state,
                   rank_return, rank_error, callback_log>>
    /\ UNCHANGED scan_vars

\* The evaluation call of unit i raises LLMGenerationError.
EvaluationFails(i) ==
    /\ LoopRunning
    /\ unit_pc[i] = "evaluating"
    /\ FinishUnit(i, RuntimeError(LLM_FAILED, i))
    /\ UNCHANGED <<num_variants, thread_count, on_output_callback, entry, rank_state,
                   rank_return, rank_error, callback_log>>
    /\ UNCHANGED scan_vars

(***************************************************************************)
(* rank_outputs after the await of asyncio.gather.                          *)
(***************************************************************************)
\* Mutation: the results are collected in the order the tasks finished.
GatherResultsAsCompleted(results, order) == [k \in 1..Len(order) |-> results[order[k]]]

\* The list gather returns: the tasks' results in the order of the tasks.
GatherResults(results, order) == [k \in 1..num_variants |-> results[k - 1]]

\* ranked_outputs: the results that are not None, in the order of results.
RECURSIVE NotNone(_)
NotNone(results) ==
    IF results = <<>> THEN <<>>
    ELSE IF Head(results) # None THEN <<Head(results)>> \o NotNone(Tail(results))
    ELSE NotNone(Tail(results))

\* Mutation: failed tasks are dropped instead of propagated and the
\* emptiness check is missing.
RankOutputsOutcomeLenient(exception, results) ==
    LET ranked_outputs == SelectSeq(results, IsRankedOutput) IN
    [state |-> "returned", error |-> None,
     return |-> sort_ranked_outputs(ranked_outputs),
     ranked_outputs |-> ranked_outputs]

\* The outcome of rank_outputs once gather is done: the first exception of a
\* task propagates; otherwise the results are collected, checked and sorted.
RankOutputsOutcome(exception, results) ==
    IF exception # None
    THEN [state |-> "raised", error |-> exception, return |-> <<>>,
          ranked_outputs |-> <<>>]
    ELSE LET ranked_outputs == NotNone(results) IN
         IF ranked_outputs = <<>>
         THEN [state |-> "raised", error |-> RuntimeError(ALL_FAILED, -1),
               return |-> <<>>, ranked_outputs |-> ranked_outputs]
         ELSE [state |-> "returned", error |-> None,
               return |-> sort_ranked_outputs(ranked_outputs),
               ranked_outputs |-> ranked_outputs]

\* gather is done: a task raised, or every task returned.
GatherDone ==
    \/ gather_exception # None
    \/ \A i \in Variants : unit_pc[i] = "succeeded"

CALLBACK_FAILED == "Error in on_output_callback"

\* Mutation: the callback is invoked without try/except; the first exception
\* it raises ends the loop and escapes rank_outputs.
CallbackLoopUncaught(ranked_outputs, raising) ==
    LET raised_at == { k \in 1..Len(ranked_outputs) : ranked_outputs[k].index \in raising }
        last == IF raised_at = {} THEN Len(ranked_outputs)
                ELSE CHOOSE k \in raised_at : \A l \in raised_at : k <= l
    IN [log |-> [k \in 1..last |->
                    [index |-> ranked_outputs[k].index,
                     raised |-> ranked_outputs[k].index \in raising]],
        escaped |-> IF raised_at = {} THEN None
                    ELSE [type |-> "Exception", message |-> CALLBACK_FAILED,
                          index |-> ranked_outputs[last].index]]

\* The loop over results with a callback installed: the callback is invoked
\* for every result that is not None, in the order of results; an exception
\* it raises is caught and printed.  raising: the indexes for which the
\* callback raises.  escaped: the exception that leaves the loop.
CallbackLoop(ranked_outputs, raising) ==
    [log |-> [k \in 1..Len(ranked_outputs) |->
                 [index |-> ranked_outputs[k].index,
                  raised |-> ranked_outputs[k].index \in raising]],
     escaped |-> None]

\* rank_outputs resumes after gather, runs the callback loop and returns or
\* raises.  Whether the callback raises for an output is the callback's choice.
RankOutputsResume ==
    /\ rank_state = "awaiting"
    /\ GatherDone
    /\ LET out == RankOutputsOutcome(gather_exception,
                                     GatherResults(unit_result, completion_order))
       IN \E raising \in (IF on_output_callback = NoneStr THEN {{}} ELSE SUBSET Variants) :
            LET cb == IF on_output_callback = NoneStr
                      THEN [log |-> <<>>, escaped |-> None]
                      ELSE CallbackLoop(out.ranked_outputs, raising)
            IN /\ callback_log' = cb.log
               /\ rank_state' = IF cb.escaped # None THEN "raised" ELSE out.state
               /\ rank_return' = IF cb.escaped # None THEN <<>> ELSE out.return
               /\ rank_error' = IF cb.escaped # None THEN cb.escaped ELSE out.error
    /\ UNCHANGED <<num_variants, thread_count, on_output_callback, entry, unit_pc,
                   unit_result, completion_order, gather_exception>>
    /\ UNCHANGED scan_vars

(***************************************************************************)
(* extract_template_attributes as one step.                                *)
(***************************************************************************)
\* No extraction in progress.
ExtractIdle ==
    /\ template = <<>>
    /\ template_entries = None
    /\ extract_state = "idle"
    /\ attributes = <<>>
    /\ extract_error = NoneStr

\* extract_template_attributes is called with a template.
ExtractInit ==
    /\ \/ \E entries \in EntryLists, closed \in BOOLEAN :
            /\ template = TemplateText(entries, closed)
            /\ template_entries = [entries |-> entries, closed |-> closed]
       \/ /\ template \in FreeTemplates
          /\ template_entries = None
    /\ extract_state = "called"
    /\ attributes = <<>>
    /\ extract_error = NoneStr

ExtractTemplateAttributes ==
    /\ extract_state = "called"
    /\ LET out == ExtractOutcome(template)
       IN /\ extract_state' = out.state
          /\ attributes' = out.attributes
          /\ extract_error' = out.error
    /\ UNCHANGED <<template, template_entries>>

(***************************************************************************)
(* One _execute_litellm_completion call.                                   *)
(***************************************************************************)
\* No completion call in progress.
CompletionIdle ==
    /\ request_logprobs = None
    /\ request_top_logprobs = None
    /\ adapter_config = [logprobs |-> Missing, top_logprobs |-> Missing]
    /\ litellm_params = None
    /\ response_obj = Unset
    /\ completion_state = "idle"
    /\ response_data = None
    /\ completion_error = NoneStr

\* _execute_litellm_completion is called.
CompletionInit ==
    /\ request_logprobs \in RequestLogprobs
    /\ request_top_logprobs \in RequestTopLogprobs
    /\ adapter_config \in AdapterConfigs
    /\ litellm_params = None
    /\ response_obj = Unset
    /\ completion_state = "called"
    /\ response_data = None
    /\ completion_error = NoneStr

\* Up to the await of litellm.acompletion: the parameters of the request.
PrepareCompletion ==
    /\ completion_state = "called"
    /\ LET params == RequestParams(request_logprobs, request_top_logprobs, adapter_config)
       IN IF params.ok
          THEN /\ litellm_params' = params.value
               /\ completion_state' = "awaiting"
               /\ completion_error' = completion_error
          ELSE /\ litellm_params' = litellm_params
               /\ completion_state' = "raised"
               /\ completion_error' = params.error
    /\ UNCHANGED <<request_logprobs, request_top_logprobs, adapter_config, response_obj,
                   response_data>>

\* litellm.acompletion returns a response; the rest of the method runs.
AcompletionReturns ==
    /\ completion_state = "awaiting"
    /\ \E response \in ProviderResponses :
         LET out == CompletionOutcome(response, litellm_params.logprobs)
         IN /\ response_obj' = response
            /\ completion_state' = IF out.ok THEN "returned" ELSE "raised"
            /\ response_data' = IF out.ok THEN out.value ELSE None
            /\ completion_error' = out.error
    /\ UNCHANGED <<request_logprobs, request_top_logprobs, adapter_config, litellm_params>>

\* litellm.acompletion raises; the method raises LLMGenerationError.
AcompletionRaises ==
    /\ completion_state = "awaiting"
    /\ completion_state' = "raised"
    /\ completion_error' = LLM_GENERATION_ERROR
    /\ UNCHANGED <<request_logprobs, request_top_logprobs, adapter_config, litellm_params,
                   response_obj, response_data>>

(***************************************************************************)
(* One direct scoring call.                                                *)
(***************************************************************************)
\* No direct scoring call in progress.
DirectIdle ==
    /\ direct_entry = "score_text_attributes_sync"
    /\ attribute_names = <<>>
    /\ direct_config = NoneStr
    /\ custom_attributes_template = <<>>
    /\ direct_response = None
    /\ direct_state = "idle"
    /\ direct_result = <<>>
    /\ direct_error = NoneStr

\* The caller calls the helper with attribute names, or the adapter method
\* with a template.
DirectInit ==
    /\ attribute_names \in DirectAttributeNames
    /\ direct_response \in DirectResponses
    /\ \/ /\ direct_entry = "get_scores_for_attributes"
          /\ direct_config \in {NoneStr, "LogProbConfig"}
          /\ custom_attributes_template = <<>>
          /\ direct_state = "called"
       \/ /\ direct_entry = "score_text_attributes_sync"
          /\ direct_config = "LogProbConfig"
          /\ custom_attributes_template = AttributesTemplateStr(attribute_names)
          /\ direct_state = "scoring"
    /\ direct_result = <<>>
    /\ direct_error = NoneStr

\* get_scores_for_attributes up to its call of score_text_attributes_sync.
BuildTemplateAndCall ==
    /\ direct_state = "called"
    /\ direct_config' = "LogProbConfig"
    /\ custom_attributes_template' = AttributesTemplateStr(attribute_names)
    /\ direct_state' = "scoring"
    /\ UNCHANGED <<direct_entry, attribute_names, direct_response, direct_result,
                   direct_error>>

\* score_text_attributes_sync runs score_text_attributes on a new event
\* loop; the helper catches what it raises.
FinishDirectCall(outcome) ==
    /\ direct_error' = outcome.error
    /\ IF direct_entry = "get_scores_for_attributes"
       THEN /\ direct_result' = GetScoresOutcome(outcome, attribute_names)
            /\ direct_state' = "returned"
       ELSE /\ direct_result' = outcome.value
            /\ direct_state' = IF outcome.ok THEN "returned" ELSE "raised"

ScoreTextAttributes ==
    /\ direct_state = "scoring"
    /\ FinishDirectCall(ScoreTextAttributesOutcome("text", custom_attributes_template,
                                                   direct_response))
    /\ UNCHANGED <<direct_entry, attribute_names, direct_config,
                   custom_attributes_template, direct_response>>

(***************************************************************************)
(* One serialization round trip.                                           *)
(***************************************************************************)
NoRankedOutput ==
    [output |-> "", logprob |-> 0, index |-> 0, attribute_scores |-> None,
     raw_evaluation |-> NoneStr, extra |-> <<>>]

\* No round trip in progress.
SerializeIdle ==
    /\ serialize_input = NoRankedOutput
    /\ data = <<>>
    /\ deserialized = NoRankedOutput
    /\ serialize_state = "idle"

\* A RankedOutput was constructed.
SerializeInit ==
    /\ serialize_input \in SerializableOutputs
    /\ data = <<>>
    /\ deserialized = NoRankedOutput
    /\ serialize_state = "constructed"

SerializeRankedOutput ==
    /\ serialize_state = "constructed"
    /\ data' = serialize_ranked_output(serialize_input)
    /\ serialize_state' = "serialized"
    /\ UNCHANGED <<serialize_input, deserialized>>

DeserializeRankedOutput ==
    /\ serialize_state = "serialized"
    /\ deserialized' = deserialize_ranked_output(data)
    /\ serialize_state' = "deserialized"
    /\ UNCHANGED <<serialize_input, data>>

(***************************************************************************)
(* generate_and_evaluate_output with its transport (ranker.py).            *)
(*                                                                         *)
(* A response dictionary is a record of its 'content' and                  *)
(* 'raw_token_logprobs' entries, Missing for a key the dictionary does not *)
(* have.  Temperatures and top_p are in tenths.                            *)
(***************************************************************************)
EVALUATION_PARSE_ERROR == "EvaluationParseError"
CONNECTION_ERROR == "ConnectionError"
UNEXPECTED == "Unexpected error for variant"

\* response_data.get(key), given the entry of the key.
DictGet(item) == IF item = Missing THEN None ELSE item

\* isinstance(e, LLMGenerationError), given the class of e.
IsLLMGenerationError(error) ==
    error \in {LLM_GENERATION_ERROR, LOGPROBS_NOT_AVAILABLE, MALFORMED_LOGPROBS}

\* Mutation: only the class LLMGenerationError itself is reported as a
\* generation failure.
ReportUnitErrorExactClass(error, index) ==
    IF error = LLM_GENERATION_ERROR THEN RuntimeError(LLM_FAILED, index)
    ELSE IF error = EVALUATION_PARSE_ERROR THEN RuntimeError(PARSE_FAILED, index)
    ELSE RuntimeError(UNEXPECTED, index)

\* The except clauses of generate_and_evaluate_output.
ReportUnitError(error, index) ==
    IF IsLLMGenerationError(error) THEN RuntimeError(LLM_FAILED, index)
    ELSE IF error = EVALUATION_PARSE_ERROR THEN RuntimeError(PARSE_FAILED, index)
    ELSE RuntimeError(UNEXPECTED, index)

\* _call_llm_and_get_content after _create_chat_completion has returned or
\* raised: the content, or the exception that leaves the helper.
CallLlmAndGetContent(call_purpose, transport) ==
    IF ~transport.ok THEN transport
    ELSE IF DictGet(transport.value.content) = None
         THEN Raised(IF call_purpose = "generation" THEN LLM_GENERATION_ERROR
                     ELSE EVALUATION_PARSE_ERROR)
         ELSE Returned(transport.value.content.value)

\* format_evaluation_prompt(eval_prompt, generated_text, template).
format_evaluation_prompt(eval_prompt, generated_text, prompt_template) ==
    IF eval_prompt = "" \/ generated_text = "" \/ prompt_template = <<>>
    THEN Raised(VALUE_ERROR)
    ELSE Returned([eval_prompt |-> eval_prompt, generated_text |-> generated_text,
                   template |-> prompt_template])

\* The messages of the two calls: the system message and the user message.
GenerationMessages == [system |-> "config.system_prompt", user |-> [prompt |-> "prompt"]]
EvaluationMessages(evaluation_formatted_prompt) ==
    [system |-> "You are an evaluator that outputs JSON with boolean values.",
     user |-> evaluation_formatted_prompt]

\* The ChatCompletionParams of the generation call.
GenerationParams(config) ==
    [messages |-> GenerationMessages,
     temperature |-> config.temperature,
     top_p |-> config.top_p,
     request_logprobs_override |-> config.logprobs.value,
     request_top_logprobs_override |-> config.top_logprobs]

\* Mutation: the evaluation call samples at the temperature of the config.
EvaluationParamsSampling(config, evaluation_formatted_prompt) ==
    [messages |-> EvaluationMessages(evaluation_formatted_prompt),
     temperature |-> config.temperature,
     top_p |-> 10,
     request_logprobs_override |-> TRUE,
     request_top_logprobs_override |->
        IF HasAttr(config.evaluation_top_logprobs) /\ config.evaluation_top_logprobs # None
        THEN config.evaluation_top_logprobs
        ELSE Some(5)]

\* The ChatCompletionParams of the evaluation call.
EvaluationParams(config, evaluation_formatted_prompt) ==
    [messages |-> EvaluationMessages(evaluation_formatted_prompt),
     temperature |-> 0,
     top_p |-> 10,
     request_logprobs_override |-> TRUE,
     request_top_logprobs_override |->
        IF HasAttr(config.evaluation_top_logprobs) /\ config.evaluation_top_logprobs # None
        THEN config.evaluation_top_logprobs
        ELSE Some(5)]

\* The RankedOutput of a unit whose two calls returned.
UnitRankedOutput(st, index, generated_output_content, raw_evaluation_text) ==
    [output |-> generated_output_content,
     logprob |-> FinalScore(st.total_attribute_token_logprob, st.num_scores_found),
     index |-> index,
     attribute_scores |-> st.attribute_scores_list,
     raw_evaluation |-> raw_evaluation_text]

\* The unit after extract_template_attributes: the scoring loop and the
\* RankedOutput, or the ValueError of the extractor.
ScoreWithAttributes(extracted, tokens, index, generated_output_content, raw_evaluation_text) ==
    IF extracted.state = "raised" THEN ReportUnitError(VALUE_ERROR, index)
    ELSE UnitRankedOutput(ScanLoop(ScanStart, tokens, extracted.attributes, 1), index,
                          generated_output_content, raw_evaluation_text)

\* The unit once the evaluation content is in hand.
ScoreEvaluation(content, response, config, index, generated_output_content) ==
    IF ~content.ok THEN ReportUnitError(content.error, index)
    ELSE IF DictGet(response.raw_token_logprobs) = None
         THEN ReportUnitError(LOGPROBS_NOT_AVAILABLE, index)
         ELSE ScoreWithAttributes(ExtractOutcome(config.template),
                                  response.raw_token_logprobs.value, index,
                                  generated_output_content, content.value)

\* The unit from the return of the evaluation call to its end.
AfterEvaluation(transport, config, index, generated_output_content) ==
    ScoreEvaluation(CallLlmAndGetContent("evaluation", transport),
                    IF transport.ok THEN transport.value ELSE <<>>,
                    config, index, generated_output_content)

\* The configs of the model: a config that declares logprobs and
\* top_logprobs, and the LogProbConfig of models.py, which has neither.
UnitTemplates ==
    { TemplateText(<<[key |-> Quoted(AttrA), before_colon |-> <<>>, after_colon |-> SPACE,
                      value |-> <<LOGPROB_TRUE>>],
                     [key |-> Quoted(AttrB), before_colon |-> <<>>, after_colon |-> SPACE,
                      value |-> <<LOGPROB_TRUE>>]>>, TRUE),
      <<LOGPROB_TRUE>>,
      <<>> }

UnitConfigs ==
    { [temperature |-> t, top_p |-> 10, logprobs |-> lp[1], top_logprobs |-> lp[2],
       evaluation_top_logprobs |-> etl, evaluation_prompt |-> ep, template |-> tpl] :
        t \in {0, 7},
        lp \in { <<Some(TRUE), None>>, <<Some(FALSE), None>>, <<Missing, Missing>> },
        etl \in {Missing, None, Some(3)},
        ep \in {"You are an evaluator.", ""},
        tpl \in UnitTemplates }

\* The exceptions a transport raises.
TransportErrors ==
    {LLM_GENERATION_ERROR, LOGPROBS_NOT_AVAILABLE, MALFORMED_LOGPROBS, CONNECTION_ERROR}

\* What the transport does with the generation request.
GenerationTransports ==
    { Raised(e) : e \in TransportErrors }
    \cup { Returned([content |-> c, raw_token_logprobs |-> Missing]) :
             c \in {Missing, None, Some(""), Some("generated")} }

\* What the transport does with the evaluation request.
EvaluationTransports ==
    { Raised(e) : e \in TransportErrors }
    \cup { Returned([content |-> c, raw_token_logprobs |-> r]) :
             c \in {Missing, None, Some(""), Some("evaluation")},
             r \in {Missing, None} \cup { Some(toks) : toks \in SampleStreams } }

\* No unit call in progress.
GenEvalIdle ==
    /\ variant_index = 0
    /\ ranker_config = None
    /\ completion_calls = <<>>
    /\ generation_transport = None
    /\ evaluation_transport = None
    /\ gen_eval_pc = "idle"
    /\ gen_eval_outcome = None

\* generate_and_evaluate_output(prompt, index) is called.
GenEvalInit ==
    /\ variant_index \in 0..(MaxVariants - 1)
    /\ ranker_config \in UnitConfigs
    /\ completion_calls = <<>>
    /\ generation_transport = None
    /\ evaluation_transport = None
    /\ gen_eval_pc = "called"
    /\ gen_eval_outcome = None

\* The unit ends with the RankedOutput it returns or the error it raises.
FinishGenEval(outcome) ==
    /\ gen_eval_pc' = IF IsError(outcome) THEN "raised" ELSE "returned"
    /\ gen_eval_outcome' = outcome

\* From the call to the first await: the arguments of the generation call
\* are read from the config and the request is issued.
IssueGeneration ==
    /\ gen_eval_pc = "called"
    /\ IF HasAttr(ranker_config.logprobs) /\ HasAttr(ranker_config.top_logprobs)
       THEN /\ completion_calls' = Append(completion_calls, GenerationParams(ranker_config))
            /\ gen_eval_pc' = "generating"
            /\ UNCHANGED gen_eval_outcome
       ELSE /\ FinishGenEval(ReportUnitError(ATTRIBUTE_ERROR, variant_index))
            /\ UNCHANGED completion_calls
    /\ UNCHANGED <<variant_index, ranker_config, generation_transport, evaluation_transport>>

\* The unit between its two awaits, given what the helper made of the
\* generation response and the evaluation prompt.
ContinueAfterGeneration(content, formatted) ==
    IF ~content.ok
    THEN /\ FinishGenEval(ReportUnitError(content.error, variant_index))
         /\ UNCHANGED completion_calls
    ELSE IF ~formatted.ok
    THEN /\ FinishGenEval(ReportUnitError(formatted.error, variant_index))
         /\ UNCHANGED completion_calls
    ELSE /\ completion_calls' =
               Append(completion_calls, EvaluationParams(ranker_config, formatted.value))
         /\ gen_eval_pc' = "evaluating"
         /\ UNCHANGED gen_eval_outcome

\* The generation call returns or raises; the unit runs to its second await
\* or to its end.
GenerationCompletes ==
    /\ gen_eval_pc = "generating"
    /\ \E transport \in GenerationTransports :
         /\ generation_transport' = transport
         /\ ContinueAfterGeneration(
               CallLlmAndGetContent("generation", transport),
               format_evaluation_prompt(
                   ranker_config.evaluation_prompt,
                   IF transport.ok /\ DictGet(transport.value.content) # None
                   THEN transport.value.content.value ELSE "",
                   ranker_config.template))
    /\ UNCHANGED <<variant_index, ranker_config, evaluation_transport>>

\* The evaluation call returns or raises; the unit runs to its end.
EvaluationCompletes ==
    /\ gen_eval_pc = "evaluating"
    /\ \E transport \in EvaluationTransports :
         /\ evaluation_transport' = transport
         /\ FinishGenEval(AfterEvaluation(transport, ranker_config, variant_index,
                                          generation_transport.value.content.value))
    /\ UNCHANGED <<variant_index, ranker_config, completion_calls, generation_transport>>

(***************************************************************************)
(* OpenRouterAdapter.arank (openrouter.py): calls on one adapter, each a   *)
(* coroutine that is suspended while its ranking run awaits.               *)
(*                                                                         *)
(* A criteria string is the sequence of its lines; a line is numbered      *)
(* ("1. clarity") or not ("- clarity").  A template is the record of its   *)
(* attribute names, an evaluation prompt the record of the criteria and    *)
(* keys it is built from.                                                   *)
(***************************************************************************)
ArankCalls == 1..MaxArankCalls

DEFAULT_TEMPLATE == [attributes |-> <<"interesting", "creative", "useful">>]
DEFAULT_EVALUATION_PROMPT == [criteria |-> <<>>, keys |-> <<>>]

CriteriaLine(numbered, text) == [numbered |-> numbered, text |-> text]

\* The criteria arguments of the model; <<>> is a call without criteria.
CriteriaTexts ==
    { <<CriteriaLine(TRUE, "clarity")>>,
      <<CriteriaLine(TRUE, "structure")>>,
      <<CriteriaLine(FALSE, "clarity")>>,
      <<>> }

\* The attribute names arank takes from the numbered lines of the criteria.
RECURSIVE CriteriaAttributes(_)
CriteriaAttributes(lines) ==
    IF lines = <<>> THEN <<>>
    ELSE IF Head(lines).numbered
         THEN <<Head(lines).text>> \o CriteriaAttributes(Tail(lines))
         ELSE CriteriaAttributes(Tail(lines))

\* The temporary template and evaluation prompt of a call.
TemporaryTemplate(arank_attributes) == [attributes |-> arank_attributes]
TemporaryEvaluationPrompt(lines, arank_attributes) ==
    [criteria |-> lines, keys |-> arank_attributes]

\* No arank call.
ArankIdle ==
    /\ config_template = DEFAULT_TEMPLATE
    /\ config_evaluation_prompt = DEFAULT_EVALUATION_PROMPT
    /\ criteria = <<>>
    /\ original_template = <<>>
    /\ original_eval_prompt = <<>>
    /\ observed_template = <<>>
    /\ arank_pc = <<>>

\* The coroutines of the arank calls are created on an adapter whose config
\* is the default one.
ArankInit ==
    /\ config_template = DEFAULT_TEMPLATE
    /\ config_evaluation_prompt = DEFAULT_EVALUATION_PROMPT
    /\ criteria \in [ArankCalls -> CriteriaTexts]
    /\ original_template = [c \in ArankCalls |-> None]
    /\ original_eval_prompt = [c \in ArankCalls |-> None]
    /\ observed_template = [c \in ArankCalls |-> None]
    /\ arank_pc = [c \in ArankCalls |-> "called"]

\* The value of original_template (original_eval_prompt) after "if criteria:".
SaveOriginal(lines, current) == IF lines # <<>> THEN current ELSE None

\* The value of a config field after the criteria block.
SetTemporary(lines, current, temporary) ==
    IF lines # <<>> /\ CriteriaAttributes(lines) # <<>> THEN temporary ELSE current

\* The value of a config field after the finally block.
Restore(original, current) == IF original # None THEN original ELSE current

\* arank runs from its call to the await of rank_outputs.
ArankBegins(c) ==
    /\ arank_pc[c] = "called"
    /\ original_template' =
          [original_template EXCEPT ![c] = SaveOriginal(criteria[c], config_template)]
    /\ original_eval_prompt' =
          [original_eval_prompt EXCEPT
              ![c] = SaveOriginal(criteria[c], config_evaluation_prompt)]
    /\ config_template' =
          SetTemporary(criteria[c], config_template,
                       TemporaryTemplate(CriteriaAttributes(criteria[c])))
    /\ config_evaluation_prompt' =
          SetTemporary(criteria[c], config_evaluation_prompt,
                       TemporaryEvaluationPrompt(criteria[c],
                                                 CriteriaAttributes(criteria[c])))
    /\ arank_pc' = [arank_pc EXCEPT ![c] = "ranking"]
    /\ UNCHANGED <<criteria, observed_template>>

\* A unit of the ranking run of call c, its generation call returned, reads
\* self.config.template for the evaluation prompt.
RankingReadsTemplate(c) ==
    /\ arank_pc[c] = "ranking"
    /\ observed_template' = [observed_template EXCEPT ![c] = config_template]
    /\ arank_pc' = [arank_pc EXCEPT ![c] = "evaluating"]
    /\ UNCHANGED <<config_template, config_evaluation_prompt, criteria, original_template,
                   original_eval_prompt>>

\* rank_outputs returns or raises; the finally block of arank runs.
ArankFinishes(c) ==
    /\ arank_pc[c] \in {"ranking", "evaluating"}
    /\ config_template' = Restore(original_template[c], config_template)
    /\ config_evaluation_prompt' = Restore(original_eval_prompt[c], config_evaluation_prompt)
    /\ arank_pc' = [arank_pc EXCEPT ![c] = "finished"]
    /\ UNCHANGED <<criteria, original_template, original_eval_prompt, observed_template>>

(***************************************************************************)
(* Specifications.                                                         *)
(***************************************************************************)
RankIdle ==
    /\ on_output_callback \in {NoneStr, "installed"}
    /\ entry \in {"rank_outputs", "rank_outputs_sync"}
    /\ unit_pc = [i \in 0..(num_variants - 1) |-> "idle"]
    /\ unit_result = [i \in 0..(num_variants - 1) |-> None]
    /\ completion_order = <<>>
    /\ gather_exception = None
    /\ rank_state = "idle"
    /\ rank_return = <<>>
    /\ rank_error = None
    /\ callback_log = <<>>

\* The ranking pipeline: a constructed ranker, then one ranking call.
Init ==
    /\ num_variants \in ValidNumVariants
    /\ thread_count \in ValidThreadCounts
    /\ RankIdle
    /\ ScanIdle
    /\ ExtractIdle
    /\ CompletionIdle
    /\ DirectIdle
    /\ SerializeIdle
    /\ GenEvalIdle
    /\ ArankIdle

\* The variables of the other entry points, which a ranking call leaves alone.
other_vars ==
    <<extract_vars, completion_vars, direct_vars, serialize_vars, gen_eval_vars, arank_vars>>

Next ==
    \/ CallRankOutputs /\ UNCHANGED other_vars
    \/ \E i \in Variants : GenerationReturns(i) /\ UNCHANGED other_vars
    \/ \E i \in Variants : GenerationFails(i) /\ UNCHANGED other_vars
    \/ \E i \in Variants : EvaluationReturns(i) /\ UNCHANGED other_vars
    \/ \E i \in Variants : EvaluationFails(i) /\ UNCHANGED other_vars
    \/ RankOutputsResume /\ UNCHANGED other_vars

Spec == Init /\ [][Next]_vars

\* No ranking call: a ranker of one variant that is never asked to rank.
RankUnused ==
    /\ num_variants = 1
    /\ thread_count = 1
    /\ on_output_callback = NoneStr
    /\ entry = "rank_outputs"
    /\ RankIdle

\* The scoring loop alone, on every scanner input.
ScanSpecInit ==
    /\ ScanInit
    /\ RankUnused
    /\ ExtractIdle
    /\ CompletionIdle
    /\ DirectIdle
    /\ SerializeIdle
    /\ GenEvalIdle
    /\ ArankIdle

ScanNext ==
    \/ ScanAttribute /\ UNCHANGED <<rank_vars, other_vars>>
    \/ ScanReturn /\ UNCHANGED <<rank_vars, other_vars>>

ScanSpec == ScanSpecInit /\ [][ScanNext]_vars

\* The template extractor alone, on every template of the model.
ExtractSpecInit ==
    /\ ExtractInit
    /\ ScanIdle
    /\ RankUnused
    /\ CompletionIdle
    /\ DirectIdle
    /\ SerializeIdle
    /\ GenEvalIdle
    /\ ArankIdle

ExtractNext ==
    ExtractTemplateAttributes
        /\ UNCHANGED <<scan_vars, rank_vars, completion_vars, direct_vars, serialize_vars,
                     gen_eval_vars, arank_vars>>

ExtractSpec == ExtractSpecInit /\ [][ExtractNext]_vars

\* One completion call of the LiteLLM adapter, on every response of the model.
CompletionSpecInit ==
    /\ CompletionInit
    /\ ScanIdle
    /\ RankUnused
    /\ ExtractIdle
    /\ DirectIdle
    /\ SerializeIdle
    /\ GenEvalIdle
    /\ ArankIdle

CompletionNext ==
    \/ PrepareCompletion /\ UNCHANGED <<scan_vars, rank_vars, extract_vars, direct_vars,
                                      serialize_vars, gen_eval_vars, arank_vars>>
    \/ AcompletionReturns /\ UNCHANGED <<scan_vars, rank_vars, extract_vars, direct_vars,
                                      serialize_vars, gen_eval_vars, arank_vars>>
    \/ AcompletionRaises /\ UNCHANGED <<scan_vars, rank_vars, extract_vars, direct_vars,
                                      serialize_vars, gen_eval_vars, arank_vars>>

CompletionSpec == CompletionSpecInit /\ [][CompletionNext]_vars

\* One direct scoring call, through the helper or the adapter method.
DirectSpecInit ==
    /\ DirectInit
    /\ ScanIdle
    /\ RankUnused
    /\ ExtractIdle
    /\ CompletionIdle
    /\ SerializeIdle
    /\ GenEvalIdle
    /\ ArankIdle

DirectNext ==
    \/ BuildTemplateAndCall
          /\ UNCHANGED <<scan_vars, rank_vars, extract_vars, completion_vars,
                         serialize_vars, gen_eval_vars, arank_vars>>
    \/ ScoreTextAttributes
          /\ UNCHANGED <<scan_vars, rank_vars, extract_vars, completion_vars,
                         serialize_vars, gen_eval_vars, arank_vars>>

DirectSpec == DirectSpecInit /\ [][DirectNext]_vars

\* A serialization round trip: a constructed RankedOutput is serialized, then
\* the dictionary is deserialized.
SerializeSpecInit ==
    /\ SerializeInit
    /\ ScanIdle
    /\ RankUnused
    /\ ExtractIdle
    /\ CompletionIdle
    /\ DirectIdle
    /\ GenEvalIdle
    /\ ArankIdle

SerializeNext ==
    \/ SerializeRankedOutput
          /\ UNCHANGED <<scan_vars, rank_vars, extract_vars, completion_vars, direct_vars,
                         gen_eval_vars, arank_vars>>
    \/ DeserializeRankedOutput
          /\ UNCHANGED <<scan_vars, rank_vars, extract_vars, completion_vars, direct_vars,
                         gen_eval_vars, arank_vars>>

SerializeSpec == SerializeSpecInit /\ [][SerializeNext]_vars

\* One generate_and_evaluate_output call, on every config, response and
\* transport failure of the model.
GenEvalSpecInit ==
    /\ GenEvalInit
    /\ ScanIdle
    /\ RankUnused
    /\ ExtractIdle
    /\ CompletionIdle
    /\ DirectIdle
    /\ SerializeIdle
    /\ ArankIdle

GenEvalNext ==
    \/ IssueGeneration
          /\ UNCHANGED <<scan_vars, rank_vars, extract_vars, completion_vars, direct_vars,
                         serialize_vars, arank_vars>>
    \/ GenerationCompletes
          /\ UNCHANGED <<scan_vars, rank_vars, extract_vars, completion_vars, direct_vars,
                         serialize_vars, arank_vars>>
    \/ EvaluationCompletes
          /\ UNCHANGED <<scan_vars, rank_vars, extract_vars, completion_vars, direct_vars,
                         serialize_vars, arank_vars>>

GenEvalSpec == GenEvalSpecInit /\ [][GenEvalNext]_vars

\* The arank calls on one adapter, in every interleaving of their steps.
ArankSpecInit ==
    /\ ArankInit
    /\ ScanIdle
    /\ RankUnused
    /\ ExtractIdle
    /\ CompletionIdle
    /\ DirectIdle
    /\ SerializeIdle
    /\ GenEvalIdle

ArankNext ==
    \/ \E c \in ArankCalls :
          ArankBegins(c)
             /\ UNCHANGED <<scan_vars, rank_vars, extract_vars, completion_vars,
                            direct_vars, serialize_vars, gen_eval_vars>>
    \/ \E c \in ArankCalls :
          RankingReadsTemplate(c)
             /\ UNCHANGED <<scan_vars, rank_vars, extract_vars, completion_vars,
                            direct_vars, serialize_vars, gen_eval_vars>>
    \/ \E c \in ArankCalls :
          ArankFinishes(c)
             /\ UNCHANGED <<scan_vars, rank_vars, extract_vars, completion_vars,
                            direct_vars, serialize_vars, gen_eval_vars>>

ArankSpec == ArankSpecInit /\ [][ArankNext]_vars

(***************************************************************************)
(* Properties of rank_outputs (specification Spec).                        *)
(***************************************************************************)
AllUnitsFinished == \A i \in Variants : unit_pc[i] \in {"succeeded", "failed"}
RankFinished == rank_state \in {"returned", "raised"}
SucceededUnits == { i \in Variants : unit_pc[i] = "succeeded" }
FailedUnits == { i \in Variants : unit_pc[i] = "failed" }

\* The outputs of the successful units, in the order of their index.
RECURSIVE SuccessfulOutputsFrom(_)
SuccessfulOutputsFrom(i) ==
    IF i >= num_variants THEN <<>>
    ELSE IF unit_pc[i] = "succeeded"
         THEN <<unit_result[i]>> \o SuccessfulOutputsFrom(i + 1)
         ELSE SuccessfulOutputsFrom(i + 1)

NonIncreasing(outputs) ==
    \A k \in 1..(Len(outputs) - 1) : ~ScoreLess(outputs[k].logprob, outputs[k + 1].logprob)

\* outputs holds exactly the results of the successful units, each once.
PermutationOfSuccessful(outputs) ==
    /\ Len(outputs) = Cardinality(SucceededUnits)
    /\ \A i \in SucceededUnits : \E k \in 1..Len(outputs) : outputs[k] = unit_result[i]
    /\ \A k \in 1..Len(outputs) : \E i \in SucceededUnits : outputs[k] = unit_result[i]

\* C1 (as claimed): once every unit has finished, with at least one failure
\* and at least one success, rank_outputs has returned the outputs of the
\* successful units sorted by logprob descending.
C1_PartialFailureTolerated ==
    (RankFinished /\ AllUnitsFinished /\ FailedUnits # {} /\ SucceededUnits # {})
        => /\ rank_state = "returned"
           /\ PermutationOfSuccessful(rank_return)
           /\ NonIncreasing(rank_return)

\* C2 (as claimed): when every unit has failed, rank_outputs raises the
\* aggregate error 'All generation and evaluation tasks failed.'.
C2_TotalFailureAggregateError ==
    (RankFinished /\ AllUnitsFinished /\ SucceededUnits = {})
        => /\ rank_state = "raised"
           /\ rank_error.message = ALL_FAILED

\* C3: rank_outputs (and rank_outputs_sync) never returns an empty list: a
\* finished call has either returned a non-empty list or raised an error.
C3_NeverReturnsEmpty ==
    /\ rank_state = "returned" => (Len(rank_return) >= 1 /\ rank_error = None)
    /\ rank_state = "raised" => rank_error # None

\* C3 witness: a ranking call of several variants through the synchronous
\* entry returned its list.
C3_Witness ==
    /\ rank_state = "returned"
    /\ entry = "rank_outputs_sync"
    /\ Len(rank_return) = num_variants
    /\ num_variants >= 2

\* C4: the returned list is a permutation of the outputs of the successful
\* units, in non-increasing order of logprob.
C4_SortedPermutation ==
    rank_state = "returned"
        => /\ PermutationOfSuccessful(rank_return)
           /\ NonIncreasing(rank_return)

\* C4 witness: a list was returned whose order differs from the order of the
\* units: a later unit scored strictly higher than an earlier one.
C4_Witness ==
    /\ rank_state = "returned"
    /\ \E i, j \in Variants :
         /\ i < j
         /\ ScoreLess(unit_result[i].logprob, unit_result[j].logprob)

\* C10: two returned outputs of equal logprob appear in the order of their
\* original index.
C10_TieBrokenByIndex ==
    rank_state = "returned"
        => \A k, l \in 1..Len(rank_return) :
              (k < l /\ ScoreEqual(rank_return[k].logprob, rank_return[l].logprob))
                  => rank_return[k].index < rank_return[l].index

\* Unit i finished before unit j.
FinishedBefore(i, j) ==
    \E a, b \in 1..Len(completion_order) :
        a < b /\ completion_order[a] = i /\ completion_order[b] = j

\* C10 witness: a list was returned that holds two outputs of equal logprob
\* of which the one with the larger index finished first.
C10_Witness ==
    /\ rank_state = "returned"
    /\ \E i, j \in Variants :
         /\ i < j
         /\ ScoreEqual(unit_result[i].logprob, unit_result[j].logprob)
         /\ FinishedBefore(j, i)

\* The orders in which the units of one call can finish.
CompletionOrders ==
    { order \in [1..num_variants -> Variants] :
        \A a, b \in 1..num_variants : a # b => order[a] # order[b] }

\* C11: the returned sequence is the one rank_outputs returns from the same
\* per-variant results under every order in which the units can finish.
C11_DeterministicUnderConcurrency ==
    rank_state = "returned"
        => \A order \in CompletionOrders :
              rank_return
                 = RankOutputsOutcome(None, GatherResults(unit_result, order)).return

\* C11 witness: three units finished in the reverse of their index order,
\* two of them with equal logprob and one with a different logprob, and the
\* list was returned.
C11_Witness ==
    /\ rank_state = "returned"
    /\ num_variants = 3
    /\ completion_order = <<2, 1, 0>>
    /\ \E i, j, k \in Variants :
         /\ i # j
         /\ ScoreEqual(unit_result[i].logprob, unit_result[j].logprob)
         /\ ~ScoreEqual(unit_result[i].logprob, unit_result[k].logprob)

\* The outcome of the call with no callback installed.
OutcomeWithoutCallback ==
    RankOutputsOutcome(gather_exception, GatherResults(unit_result, completion_order))

\* C12: with a callback installed, whatever invocations of it raise, the
\* finished call has the outcome it has with no callback installed, and the
\* callback was invoked once for every successful output, in result order.
C12_CallbackIsolation ==
    (RankFinished /\ on_output_callback = "installed")
        => /\ rank_state = OutcomeWithoutCallback.state
           /\ rank_return = OutcomeWithoutCallback.return
           /\ rank_error = OutcomeWithoutCallback.error
           /\ Len(callback_log) = Len(OutcomeWithoutCallback.ranked_outputs)
           /\ \A k \in 1..Len(callback_log) :
                 callback_log[k].index = OutcomeWithoutCallback.ranked_outputs[k].index

\* C12 witness: the callback raised for the first output, was invoked for
\* the outputs after it, and the list was returned.
C12_Witness ==
    /\ rank_state = "returned"
    /\ Len(callback_log) >= 2
    /\ callback_log[1].raised
    /\ ~callback_log[2].raised
    /\ Len(rank_return) = Len(callback_log)

\* The units started and not yet finished.
InFlight == { i \in Variants : unit_pc[i] \in {"generating", "evaluating"} }

CallbackInvokedFor(i) == \E k \in 1..Len(callback_log) : callback_log[k].index = i

\* C13 (as claimed): with a callback installed, when a variant has completed
\* successfully while another variant is still running, the callback has
\* been invoked for the completed variant.
C13_CallbackAtCompletion ==
    on_output_callback = "installed"
        => \A a, b \in Variants :
              (unit_pc[a] = "succeeded" /\ b \in InFlight) => CallbackInvokedFor(a)

\* C20 (as claimed): at no time are more than config.thread_count units in
\* flight.
C20_BoundedConcurrency == Cardinality(InFlight) <= thread_count

(***************************************************************************)
(* Properties of extract_template_attributes (specification ExtractSpec).  *)
(***************************************************************************)
IsQuotedKey(key) == Len(key) >= 2 /\ key[1] = QUOTE[1] /\ key[Len(key)] = QUOTE[1]

\* The keys, in textual order, of the entries whose value is the placeholder.
RECURSIVE PlaceholderValuedKeys(_)
PlaceholderValuedKeys(entries) ==
    IF entries = <<>> THEN <<>>
    ELSE IF Head(entries).value = <<LOGPROB_TRUE>>
         THEN <<SubSeq(Head(entries).key, 2, Len(Head(entries).key) - 1)>>
                 \o PlaceholderValuedKeys(Tail(entries))
         ELSE PlaceholderValuedKeys(Tail(entries))

\* A template written as entries with quoted, pairwise different keys whose
\* values are the placeholder or an ordinary string, at least one of them
\* the placeholder.
PlaceholderTemplate ==
    /\ template_entries # None
    /\ \A k \in 1..Len(template_entries.entries) :
          /\ IsQuotedKey(template_entries.entries[k].key)
          /\ template_entries.entries[k].value # Quoted(<<LOGPROB_TRUE>>)
    /\ \A k, l \in 1..Len(template_entries.entries) :
          k # l => template_entries.entries[k].key # template_entries.entries[l].key
    /\ PlaceholderValuedKeys(template_entries.entries) # <<>>

\* C14 (as claimed): for a template whose placeholder-valued keys are
\* k1..kn in textual order, with or without blanks around the colons, valid
\* JSON or not, the extractor returns exactly k1..kn in that order.
C14_ExtractorOrderPreserved ==
    (extract_state \in {"returned", "raised"} /\ PlaceholderTemplate)
        => /\ extract_state = "returned"
           /\ attributes = PlaceholderValuedKeys(template_entries.entries)

\* C15: the extractor never returns an empty list, and it raises when
\* neither the JSON attempts nor the pattern find a placeholder-valued key.
C15_ExtractorNeverReturnsEmpty ==
    /\ extract_state = "returned" => attributes # <<>>
    /\ (extract_state \in {"returned", "raised"}
          /\ JsonAttributes(template) = <<>> /\ RegexAttributes(template) = <<>>)
            => (extract_state = "raised" /\ extract_error # NoneStr)

\* C15 witness: the extractor raised for a template that is a valid JSON
\* object with an entry, none of whose values is the placeholder.
C15_Witness ==
    /\ extract_state = "raised"
    /\ template_entries # None
    /\ template_entries.closed
    /\ Len(template_entries.entries) >= 1
    /\ json_loads(template).ok

(***************************************************************************)
(* Properties of the LiteLLM transport (specification CompletionSpec).     *)
(***************************************************************************)
\* litellm.acompletion returned a response to a request that asked for
\* logprobs, and the method has finished.
LogprobsCompletionFinished ==
    /\ completion_state \in {"returned", "raised"}
    /\ response_obj # Unset
    /\ litellm_params # None
    /\ litellm_params.logprobs

HasChoice(response) == response # None /\ response.choices # <<>>

\* The response has a choice whose logprobs are absent: no logprobs
\* attribute, a None container, a missing, None or non-list content, or an
\* empty content list.
LogprobsUnavailable(response) ==
    /\ HasChoice(response)
    /\ LET logprobs == response.choices[1].logprobs IN
       \/ logprobs = Missing
       \/ logprobs = None
       \/ logprobs.content = Missing
       \/ logprobs.content = None
       \/ ~IsList(logprobs.content)
       \/ logprobs.content.list = <<>>

\* The response has a content list with an element that lacks a string
\* token or a numeric logprob.
HasMalformedItem(response) ==
    /\ HasChoice(response)
    /\ ~LogprobsUnavailable(response)
    /\ \E k \in 1..Len(response.choices[1].logprobs.content.list) :
          LET item == response.choices[1].logprobs.content.list[k] IN
          \/ ~IsStr(item.token)
          \/ ~IsNumber(item.logprob)

\* C16: a completion with logprobs requested whose response has no usable
\* logprobs fails with LogprobsNotAvailableError and returns no data.
C16_LogprobsUnavailableRaises ==
    (LogprobsCompletionFinished /\ LogprobsUnavailable(response_obj))
        => /\ completion_state = "raised"
           /\ completion_error = LOGPROBS_NOT_AVAILABLE
           /\ response_data = None

\* C16 witness: the call failed on a response with message content and an
\* empty logprobs content list.
C16_Witness ==
    /\ LogprobsCompletionFinished
    /\ completion_state = "raised"
    /\ HasChoice(response_obj)
    /\ response_obj.choices[1].message # None
    /\ response_obj.choices[1].message.content # None
    /\ response_obj.choices[1].logprobs # Missing
    /\ response_obj.choices[1].logprobs # None
    /\ response_obj.choices[1].logprobs.content = PyList(<<>>)

\* C17: a completion with logprobs requested whose logprobs list holds a
\* malformed element fails with MalformedLogprobsError and returns no data.
C17_MalformedItemRaises ==
    (LogprobsCompletionFinished /\ HasMalformedItem(response_obj))
        => /\ completion_state = "raised"
           /\ completion_error = MALFORMED_LOGPROBS
           /\ response_data = None

\* C17 witness: the call failed on a list whose first element is well-formed
\* and whose second element has no numeric logprob.
C17_Witness ==
    /\ LogprobsCompletionFinished
    /\ completion_state = "raised"
    /\ HasMalformedItem(response_obj)
    /\ Len(response_obj.choices[1].logprobs.content.list) = 2
    /\ IsWellFormedItem(response_obj.choices[1].logprobs.content.list[1])
    /\ IsStr(response_obj.choices[1].logprobs.content.list[2].token)
    /\ ~IsNumber(response_obj.choices[1].logprobs.content.list[2].logprob)

(***************************************************************************)
(* Properties of the scanner and the aggregation (specification ScanSpec). *)
(***************************************************************************)
RECURSIVE SumScores(_)
SumScores(scores) ==
    IF scores = <<>> THEN 0 ELSE Head(scores).score + SumScores(Tail(scores))

IsLocated(as) == as.explanation = FOUND
LocatedScores == SelectSeq(attribute_scores_list, IsLocated)

\* C5 (as claimed): for every tokenization of {"ab": true} / {"ab": false}
\* with the boolean literal as its own token, the scan yields one
\* AttributeScore for "ab" whose score is the logprob of the boolean token.
C5_SingleAttributeAnyTokenization ==
    (scan_pc = "returned" /\ eval_tokens_with_logprobs \in TokenizedObjects)
        => /\ Len(attribute_scores_list) = 1
           /\ attribute_scores_list[1].name = AttrAB
           /\ attribute_scores_list[1].explanation = FOUND
           /\ attribute_scores_list[1].score =
                 eval_tokens_with_logprobs[Len(eval_tokens_with_logprobs) - 1].logprob

\* C6: the stream positions of the value tokens taken for located
\* attributes are strictly increasing in attribute order.
C6_ValuePositionsIncrease ==
    \A i, j \in 1..Len(value_token_idx) :
        (i < j /\ value_token_idx[i] # -1 /\ value_token_idx[j] # -1)
            => value_token_idx[i] < value_token_idx[j]

\* C6 witness: two attributes were located on two boolean tokens of
\* identical text and logprob.
C6_Witness ==
    /\ scan_pc = "returned"
    /\ Len(value_token_idx) = 2
    /\ value_token_idx[1] # -1
    /\ value_token_idx[2] # -1
    /\ TokenAt(eval_tokens_with_logprobs, value_token_idx[1])
          = TokenAt(eval_tokens_with_logprobs, value_token_idx[2])

C8_NoOutputWhenNothingScored ==
    ~(scan_pc = "returned" /\ ranked_output # None /\ LocatedScores = <<>>)

\* C9 (as claimed): a located true / false token with logprob 0.0 is never
\* accepted as the attribute's score.
C9_ZeroLogprobNotAccepted ==
    \A k \in 1..Len(attribute_scores_list) :
        IsLocated(attribute_scores_list[k]) => attribute_scores_list[k].score # 0

(***************************************************************************)
(* Properties of single ScanAttribute steps (specification ScanSpec).      *)
(***************************************************************************)
\* The step appends the AttributeScore of one more attribute.
IsScanStep == Len(attribute_scores_list') = Len(attribute_scores_list) + 1

\* The attribute the step processes, and what the step recorded for it.
StepAttribute == attributes_list[Len(attribute_scores_list) + 1]
StepScore == attribute_scores_list'[Len(attribute_scores_list')]
StepValueIdx == value_token_idx'[Len(value_token_idx')]

\* The end of the key and the position after the colon that the step finds
\* from the cursor it starts with, -1 when there is none.
StepColonSearchStart ==
    FindKey(eval_tokens_with_logprobs, StepAttribute, current_token_stream_idx)
StepValueSearchStart ==
    IF StepColonSearchStart = -1 THEN -1
    ELSE FindColon(eval_tokens_with_logprobs, StepColonSearchStart, StepColonSearchStart)

\* The text of the token at stream position i.
TextAt(i) == TokenAt(eval_tokens_with_logprobs, i).token

\* A token that ends a value: ',', '}', ']' or a quoted string.
EndsValue(t) == t \in {COMMA, RBRACE, RBRACKET} \/ StartsWith(t, QUOTE)

\* Position j, at or after position start, holds a token that ends a value,
\* and no token from start to j is a boolean.
EndsValueBeforeBoolean(start, j) ==
    /\ start <= j
    /\ j < Len(eval_tokens_with_logprobs)
    /\ EndsValue(TextAt(j))
    /\ \A i \in start..j : ~IsBooleanToken(TextAt(i))

\* C21 (as claimed): when a token ending a value comes after the attribute's
\* colon and before any boolean token, the attribute is reported not found:
\* its score is never the logprob of a boolean beyond such a token.
C21_ValueSearchAborts ==
    [][(IsScanStep /\ StepValueSearchStart # -1
          /\ \E j \in 0..(Len(eval_tokens_with_logprobs) - 1) :
                EndsValueBeforeBoolean(StepValueSearchStart, j))
        => (StepScore.explanation = NOT_FOUND /\ StepValueIdx = -1)]_vars

\* A token that ends the search for the colon: a quoted string, '}' or ']'.
EndsKey(t) == StartsWith(t, QUOTE) \/ t \in {RBRACE, RBRACKET}

\* Position j, at or after position start, holds a token that ends the
\* search for the colon, and no token from start to j contains ':'.
EndsKeyBeforeColon(start, j) ==
    /\ start <= j
    /\ j < Len(eval_tokens_with_logprobs)
    /\ EndsKey(TextAt(j))
    /\ \A i \in start..j : ~Contains(TextAt(i), COLON)

\* C22 (as claimed): when a quoted string, '}' or ']' comes after the
\* located key and before any token containing ':', the attribute is reported
\* not found: no colon or value after that token is used.
C22_ColonSearchAborts ==
    [][(IsScanStep /\ StepColonSearchStart # -1
          /\ \E j \in 0..(Len(eval_tokens_with_logprobs) - 1) :
                EndsKeyBeforeColon(StepColonSearchStart, j))
        => (StepScore.explanation = NOT_FOUND /\ StepValueIdx = -1)]_vars

\* The value search of the step stops at position j: the first position from
\* StepValueSearchStart on that holds a boolean or a token at which the
\* search is abandoned.
StopsValueSearch(j) ==
    IsBooleanToken(TextAt(j)) \/ IsValueDelimiter(TextAt(j), j, StepValueSearchStart)
IsFirstStop(j) ==
    /\ StepValueSearchStart <= j
    /\ j < Len(eval_tokens_with_logprobs)
    /\ StopsValueSearch(j)
    /\ \A i \in StepValueSearchStart..(j - 1) : ~StopsValueSearch(i)

\* The cursor the step leaves when the colon was found, the last case aside:
\* past the value token, at the token that abandoned the search, or at the
\* end of the stream.
CursorAfterValueSearch ==
    IF \E j \in 0..(Len(eval_tokens_with_logprobs) - 1) : IsFirstStop(j)
    THEN LET j == CHOOSE k \in 0..(Len(eval_tokens_with_logprobs) - 1) : IsFirstStop(k)
         IN IF IsBooleanToken(TextAt(j)) THEN j + 1 ELSE j
    ELSE Len(eval_tokens_with_logprobs)

\* What every step keeps: the cursor does not decrease, a located value
\* token lies at or after the old cursor and right before the new one.
CursorMovesForward ==
    /\ current_token_stream_idx' >= current_token_stream_idx
    /\ StepValueIdx # -1
          => /\ StepValueIdx >= current_token_stream_idx
             /\ current_token_stream_idx' = StepValueIdx + 1
             /\ IsBooleanToken(TextAt(StepValueIdx))

IsNotFoundScore(as) == as.score = 0 /\ as.explanation = NOT_FOUND

\* C24: the scan appends one AttributeScore per template attribute, in
\* template order, each located or with score 0.0 and the not-found
\* explanation, and the RankedOutput returned carries that whole list.
C24_OneEntryPerAttribute ==
    /\ Len(attribute_scores_list) <= Len(attributes_list)
    /\ Len(value_token_idx) = Len(attribute_scores_list)
    /\ \A k \in 1..Len(attribute_scores_list) :
          /\ attribute_scores_list[k].name = attributes_list[k]
          /\ IF value_token_idx[k] = -1
             THEN IsNotFoundScore(attribute_scores_list[k])
             ELSE IsLocated(attribute_scores_list[k])
    /\ scan_pc = "returned"
          => /\ ranked_output # None
             /\ ranked_output.attribute_scores = attribute_scores_list
             /\ Len(attribute_scores_list) = Len(attributes_list)

\* C24 witness: a RankedOutput was returned on a stream in which the first
\* attribute was not found and the second one, scanned after it, was located.
C24_Witness ==
    /\ scan_pc = "returned"
    /\ Len(ranked_output.attribute_scores) = 2
    /\ IsNotFoundScore(ranked_output.attribute_scores[1])
    /\ IsLocated(ranked_output.attribute_scores[2])
    /\ ranked_output.attribute_scores[2].score # 0

(***************************************************************************)
(* Properties of direct scoring (specification DirectSpec).                *)
(***************************************************************************)
\* scores holds one located AttributeScore per name, in the order of names.
FullLocatedList(scores, names) ==
    /\ Len(scores) = Len(names)
    /\ \A k \in 1..Len(scores) :
          scores[k].name = names[k] /\ IsLocated(scores[k])

\* The attributes of the template built from names: the names without
\* repetitions, in the order of their first occurrence.
RECURSIVE TemplateAttributeNames(_)
TemplateAttributeNames(names) ==
    IF names = <<>> THEN <<>>
    ELSE LET init == TemplateAttributeNames(SubSeq(names, 1, Len(names) - 1))
             last == names[Len(names)]
         IN IF \E k \in 1..Len(init) : init[k] = last THEN init ELSE Append(init, last)

\* An outcome of score_text_attributes that is all or nothing for names.
AllOrNothing(outcome, names) ==
    IF outcome.ok
    THEN /\ FullLocatedList(outcome.value, TemplateAttributeNames(names))
         /\ \A k \in 1..Len(outcome.value) : outcome.value[k].score # 0
    ELSE outcome.error # NoneStr /\ outcome.value = <<>>

\* C18: a finished direct scoring call has raised, or returned one located
\* AttributeScore per template attribute in template order; the helper
\* returns that list, and the empty list exactly when the call raised.  The
\* same holds of the part of score_text_attributes that scores the
\* evaluation response, for every response.
C18_AllOrNothing ==
    /\ direct_state = "raised" => (direct_error # NoneStr /\ direct_result = <<>>)
    /\ direct_state = "returned"
          => IF direct_error = NoneStr
             THEN FullLocatedList(direct_result, TemplateAttributeNames(attribute_names))
             ELSE direct_entry = "get_scores_for_attributes" /\ direct_result = <<>>
    /\ direct_state \in {"scoring", "returned", "raised"}
          => LET scored == ScoreFromResponse(direct_response, custom_attributes_template)
             IN /\ AllOrNothing(scored, attribute_names)
                /\ GetScoresOutcome(scored, attribute_names)
                      = IF scored.ok THEN scored.value ELSE <<>>

\* C18 witness: the helper was asked for two attributes, the adapter method
\* raised, and the helper returned the empty list, on an evaluation response
\* from which the scoring loop yields both scores.
C18_Witness ==
    /\ direct_state = "returned"
    /\ direct_entry = "get_scores_for_attributes"
    /\ Len(attribute_names) = 2
    /\ direct_error # NoneStr
    /\ direct_result = <<>>
    /\ LET scored == ScoreFromResponse(direct_response, custom_attributes_template)
       IN scored.ok /\ Len(scored.value) = 2

(***************************************************************************)
(* Properties of serialization (specification SerializeSpec).              *)
(***************************************************************************)
\* The names and scores of an attribute_scores value, in order.
NamesAndScores(attribute_scores) ==
    [k \in 1..Len(attribute_scores) |->
        <<attribute_scores[k].name, attribute_scores[k].score>>]

\* attribute_scores a and b are both absent, or both lists with the same
\* names and scores in the same order.
SameAttributeScores(a, b) ==
    IF a = None \/ b = None THEN a = b
    ELSE NamesAndScores(a.value) = NamesAndScores(b.value)

\* C19 (as claimed): deserializing the serialized RankedOutput gives back its
\* output, logprob, index, attribute_scores (names and scores in order) and
\* raw_evaluation, empty and absent ones included.
C19_RoundTrip ==
    serialize_state = "deserialized"
        => /\ deserialized.output = serialize_input.output
           /\ deserialized.logprob = serialize_input.logprob
           /\ deserialized.index = serialize_input.index
           /\ SameAttributeScores(deserialized.attribute_scores,
                                  serialize_input.attribute_scores)
           /\ deserialized.raw_evaluation = serialize_input.raw_evaluation


(***************************************************************************)
(* Properties of one generate_and_evaluate_output call (specification      *)
(* GenEvalSpec).                                                           *)
(***************************************************************************)
GenEvalFinished == gen_eval_pc \in {"returned", "raised"}

\* The transport answered the call with a response dictionary.
TransportReturned(transport) == transport # None /\ transport.ok

\* The transport answered the call with an exception.
TransportRaised(transport) == transport # None /\ ~transport.ok

\* The response carries no token-logprob stream: the entry is missing, None
\* or an empty list.
NoTokenStream(response) ==
    \/ response.raw_token_logprobs = Missing
    \/ response.raw_token_logprobs = None
    \/ response.raw_token_logprobs = Some(<<>>)

\* C25: a unit whose evaluation response carries no token-logprob stream
\* (raw_token_logprobs missing, None or an empty list) fails: it raises and
\* produces no RankedOutput.
C25_MissingStreamFatal ==
    (/\ GenEvalFinished
     /\ TransportReturned(evaluation_transport)
     /\ NoTokenStream(evaluation_transport.value))
        => (gen_eval_pc = "raised" /\ IsError(gen_eval_outcome))

\* The generation request failed: the transport raised, or the response has
\* no content.
GenerationFailed ==
    \/ TransportRaised(generation_transport)
    \/ /\ TransportReturned(generation_transport)
       /\ DictGet(generation_transport.value.content) = None

\* The generation request returned content.
GenerationReturnedContent ==
    /\ TransportReturned(generation_transport)
    /\ DictGet(generation_transport.value.content) # None

IsEvaluationCall(params) ==
    /\ params.messages.system # GenerationMessages.system
    /\ params.temperature = 0
    /\ params.request_logprobs_override = TRUE

\* C26: the evaluation request is issued only after the generation request
\* has returned content, with temperature 0 and log-probabilities requested;
\* a unit whose generation request fails makes exactly one completion call,
\* a unit that succeeds exactly two.
C26_UnitCallProtocol ==
    /\ Len(completion_calls) <= 2
    /\ Len(completion_calls) >= 1 => completion_calls[1].messages = GenerationMessages
    /\ Len(completion_calls) = 2
          => (GenerationReturnedContent /\ IsEvaluationCall(completion_calls[2]))
    /\ GenerationFailed => Len(completion_calls) = 1
    /\ gen_eval_pc = "returned" => Len(completion_calls) = 2

\* A unit of a sampling config succeeded after its two calls.
C26_Witness ==
    /\ gen_eval_pc = "returned"
    /\ ranker_config.temperature = 7
    /\ Len(completion_calls) = 2
    /\ completion_calls[1].temperature = 7
    /\ completion_calls[2].temperature = 0

\* A unit whose generation request failed has ended.
C26_WitnessGenerationFailed ==
    /\ gen_eval_pc = "raised"
    /\ GenerationFailed
    /\ Len(completion_calls) = 1

NoArankInFlight == \A c \in ArankCalls : arank_pc[c] \in {"called", "finished"}

\* The template the ranking run of call c is meant to use: its own temporary
\* template, or the template of the config when the call sets none.
OwnTemplate(c) ==
    SetTemporary(criteria[c], DEFAULT_TEMPLATE,
                 TemporaryTemplate(CriteriaAttributes(criteria[c])))

\* The restoration alone: with no call in flight the config is the one the
\* adapter was constructed with.
ConfigRestoredWhenQuiet ==
    NoArankInFlight
        => /\ config_template = DEFAULT_TEMPLATE
           /\ config_evaluation_prompt = DEFAULT_EVALUATION_PROMPT

\* C29: once every arank call in flight on the adapter has completed,
\* config.template and config.evaluation_prompt hold the values they had
\* before the first of the calls started, in every interleaving, and no
\* ranking run reads the temporary template of another call.
C29_ConfigRestoration ==
    /\ ConfigRestoredWhenQuiet
    /\ \A c \in ArankCalls :
          observed_template[c] # None => observed_template[c] = OwnTemplate(c)


(***************************************************************************)
(* Properties of the units of one ranking call (specification Spec).       *)
(***************************************************************************)
\* C27: a unit's failure does not cut its sibling units short: when the
\* ranking call (rank_outputs or rank_outputs_sync) returns or raises, every
\* launched unit has run its two completion steps to its own success or
\* failure.
C27_NoSiblingCancellation == RankFinished => AllUnitsFinished


\* No attribute of the output was located: every AttributeScore is a
\* not-found one.
IsUnscored(output) ==
    \A k \in 1..Len(output.attribute_scores) : ~IsLocated(output.attribute_scores[k])

\* At least one attribute of the output was located.
HasLocatedAttribute(output) ==
    \E k \in 1..Len(output.attribute_scores) : IsLocated(output.attribute_scores[k])

\* The logprobs the output was scored with are all negative.
ScoredWithNegativeLogprobs(output) ==
    \A k \in 1..Len(output.attribute_scores) :
        IsLocated(output.attribute_scores[k]) => output.attribute_scores[k].score < 0

\* C30: when all token logprobs are negative, the ranking never places a
\* variant none of whose attributes was located ahead of a variant with at
\* least one located attribute.
C30_UnscoredNotAhead ==
    (/\ rank_state = "returned"
     /\ \A k \in 1..Len(rank_return) : ScoredWithNegativeLogprobs(rank_return[k]))
        => \A k, l \in 1..Len(rank_return) :
              k < l => ~(IsUnscored(rank_return[k]) /\ HasLocatedAttribute(rank_return[l]))

====
